---- MODULE Spec2Model ----
(***************************************************************************)
(* Change-candidate collection of bevy_replicon's server                   *)
(* (src/src/server/change_detection.rs) together with the tick window,     *)
(* the per-client message cut and the network entity map it works with.    *)
(*                                                                         *)
(* The world is the part of a bevy World that collect_candidates reads:    *)
(* the archetype list (component set and entity list of every archetype),  *)
(* the per-component storage type, the change ticks held in table columns  *)
(* and in sparse sets, and the RemovalTracker column.                      *)
(***************************************************************************)
EXTENDS Integers, Sequences, FiniteSets, TLC

(***************************************************************************)
(* Bounds of the model.                                                    *)
(***************************************************************************)
\* Half of the tick range: Tick is u32 in the program, 0 .. 2*HalfRange-1 here.
HalfRange == 5
\* Entities the world may spawn.
MaxEntities == 2
\* Frames the schedule runs (the tick counter wraps within them).
MaxFrames == 2
\* Inputs of one run: commands of the application on the world, and
\* connections and disconnections of clients.
MaxInputs == 3
\* Client ids the transport may connect.
MaxClients == 3

TickRange == 2 * HalfRange
Tick == 0 .. (TickRange - 1)
Entities == 1 .. MaxEntities
Clients == 1 .. MaxClients

Min(a, b) == IF a < b THEN a ELSE b

(***************************************************************************)
(* Tick comparison.  Tick::is_newer_than(last_run, this_run) and           *)
(* ComponentTicks::is_changed(last_run, this_run) are the bevy_ecs         *)
(* operations called by the collector: both ticks are measured as ages     *)
(* behind this_run with wrapping subtraction, ages are clamped at          *)
(* MAX_CHANGE_AGE, and the tick is newer when its age is smaller.          *)
(* bevy: CHECK_TICK_THRESHOLD = 518_400_000 (about an eighth of 2^32) and  *)
(* MAX_CHANGE_AGE = u32::MAX - (2 * CHECK_TICK_THRESHOLD - 1).             *)
(***************************************************************************)
CHECK_TICK_THRESHOLD == HalfRange \div 4
MAX_CHANGE_AGE == (TickRange - 1) - (2 * CHECK_TICK_THRESHOLD - 1)

wrapping_sub(a, b) == (a - b + TickRange) % TickRange
wrapping_add(a, b) == (a + b) % TickRange

\* Tick::relative_to: self - other, wrapping.
relative_to(self, other) == wrapping_sub(self, other)

is_newer_than(self, last_run, this_run) ==
    LET ticks_since_insert == Min(relative_to(this_run, self), MAX_CHANGE_AGE)
        ticks_since_system == Min(relative_to(this_run, last_run), MAX_CHANGE_AGE)
    IN  ticks_since_system > ticks_since_insert

is_changed(component_ticks, last_run, this_run) ==
    is_newer_than(component_ticks.changed, last_run, this_run)

(***************************************************************************)
(* Components.  A and B are the data components of the application; the    *)
(* others are the markers of the replication core.                         *)
(***************************************************************************)
DataComponents == {"A", "B"}
MarkerComponents == {"Replication", "RemovalTracker", "IgnoredA", "IgnoredB"}
ComponentIds == DataComponents \cup MarkerComponents

\* Component ids in registration order.
ComponentOrder == <<"Replication", "RemovalTracker", "A", "IgnoredA", "B", "IgnoredB">>

IgnoredOf(c) == IF c = "A" THEN "IgnoredA" ELSE "IgnoredB"

(***************************************************************************)
(* Small helpers on sequences.                                             *)
(***************************************************************************)
Range(s) == {s[i] : i \in DOMAIN s}

IndexOf(s, x) == CHOOSE i \in DOMAIN s : s[i] = x

\* Vec::swap_remove: the last element takes the place of the removed one.
swap_remove(s, i) ==
    [j \in 1 .. (Len(s) - 1) |-> IF j = i THEN s[Len(s)] ELSE s[j]]

\* Insertion of x so that it becomes element number i.
InsertAt(s, i, x) ==
    [j \in 1 .. (Len(s) + 1) |-> IF j < i THEN s[j] ELSE IF j = i THEN x ELSE s[j - 1]]

Restrict(f, S) == [x \in S |-> f[x]]

(***************************************************************************)
(* ReplicationRules: the registered components in registration order.      *)
(* ReplicationId is the position of a component in infos;                  *)
(* get(component_id) is Some((replication_id, replication_info)) for a     *)
(* registered component and None otherwise (<<>> stands for None).         *)
(***************************************************************************)
ReplicationInfo(c) == [component_id |-> c, ignored_id |-> IgnoredOf(c), type_name |-> c]

RuleSets ==
    { [marker_id |-> "Replication", infos |-> <<ReplicationInfo("A"), ReplicationInfo("B")>>],
      [marker_id |-> "Replication", infos |-> <<ReplicationInfo("A")>>] }

rules_get(replication_rules, component_id) ==
    LET hits == {i \in DOMAIN replication_rules.infos :
                    replication_rules.infos[i].component_id = component_id}
    IN  IF hits = {} THEN <<>>
        ELSE LET i == CHOOSE i \in hits : TRUE
             IN  << [replication_id |-> i, replication_info |-> replication_rules.infos[i]] >>

get_marker_id(replication_rules) == replication_rules.marker_id

ReplicationIds == 1 .. 2

(***************************************************************************)
(* The world.                                                              *)
(*   archetypes    sequence of [components, entities]; element 1 is        *)
(*                 ArchetypeId::EMPTY, archetypes are never deleted        *)
(*   storage_type  "Table" or "SparseSet" of every component               *)
(*   tables        ComponentTicks in table columns: <<entity, id>> -> ticks *)
(*   sparse_sets   ComponentTicks in sparse sets: id -> (entity -> ticks)  *)
(*   trackers      the RemovalTracker column: entity -> sequence of        *)
(*                 [replication_id, tick] in the map's iteration order     *)
(***************************************************************************)
\* B is declared #[component(storage = "SparseSet")]; Table is the default.
Storage == [c \in ComponentIds |-> IF c = "B" THEN "SparseSet" ELSE "Table"]

EmptyWorld(storage) ==
    [ archetypes   |-> << [components |-> {}, entities |-> <<>>] >>,
      storage_type |-> storage,
      tables       |-> << >>,
      sparse_sets  |-> [c \in {d \in ComponentIds : storage[d] = "SparseSet"} |-> << >>],
      trackers     |-> << >> ]

ArchetypeOf(world, e) ==
    CHOOSE i \in DOMAIN world.archetypes : e \in Range(world.archetypes[i].entities)

Spawned(world) ==
    UNION {Range(world.archetypes[i].entities) : i \in DOMAIN world.archetypes}

ComponentsOf(world, e) == world.archetypes[ArchetypeOf(world, e)].components

\* Archetype::contains
contains(archetype, component_id) == component_id \in archetype.components

\* Archetype::get_storage_type: Some(storage) for a component of the archetype.
get_storage_type(world, archetype, component_id) ==
    IF contains(archetype, component_id)
    THEN << world.storage_type[component_id] >>
    ELSE << >>

\* Fault: the iteration covers Archetype::table_components only.
components_table_only(world, archetype) ==
    SelectSeq(ComponentOrder,
              LAMBDA c : c \in archetype.components /\ world.storage_type[c] = "Table")

\* Archetype::components: table components, then sparse-set components.
components(world, archetype) ==
    SelectSeq(ComponentOrder,
              LAMBDA c : c \in archetype.components /\ world.storage_type[c] = "Table")
    \o
    SelectSeq(ComponentOrder,
              LAMBDA c : c \in archetype.components /\ world.storage_type[c] = "SparseSet")

RECURSIVE Flatten(_)
\* Concatenation of a sequence of sequences (Iterator::filter_map / flatten).
Flatten(ss) == IF ss = << >> THEN << >> ELSE Head(ss) \o Flatten(Tail(ss))

(***************************************************************************)
(* collect_candidates (change_detection.rs).                               *)
(***************************************************************************)
\* Fault: the candidate is stamped with the tick of the scan instead of the
\* tick of the removal.
removal_candidates_restamped(world, archetype, entity, this_run, oldest_client_tick) ==
    IF contains(archetype, "RemovalTracker")
    THEN LET removal_tracker == world.trackers[entity]
             kept == SelectSeq(removal_tracker,
                        LAMBDA r : is_newer_than(r.tick, oldest_client_tick, this_run))
         IN  [i \in DOMAIN kept |->
                [replication_id |-> kept[i].replication_id, tick |-> this_run]]
    ELSE << >>

\* Fault: the two ticks handed to is_newer_than are swapped.
removal_candidates_swapped(world, archetype, entity, this_run, oldest_client_tick) ==
    IF contains(archetype, "RemovalTracker")
    THEN LET removal_tracker == world.trackers[entity]
             kept == SelectSeq(removal_tracker,
                        LAMBDA r : is_newer_than(r.tick, this_run, oldest_client_tick))
         IN  [i \in DOMAIN kept |->
                [replication_id |-> kept[i].replication_id, tick |-> kept[i].tick]]
    ELSE << >>

\* The removal candidates of one entity: the RemovalTracker entries newer
\* than oldest_client_tick, or none when the archetype has no tracker.
removal_candidates(world, archetype, entity, this_run, oldest_client_tick) ==
    IF contains(archetype, "RemovalTracker")
    THEN LET removal_tracker == world.trackers[entity]
             kept == SelectSeq(removal_tracker,
                        LAMBDA r : is_newer_than(r.tick, oldest_client_tick, this_run))
         IN  [i \in DOMAIN kept |->
                [replication_id |-> kept[i].replication_id, tick |-> kept[i].tick]]
    ELSE << >>

\* Fault: the early return is taken when the component HAS changed.
table_candidate_inverted(world, hit, entity, component_id, this_run, oldest_client_tick) ==
    LET component_ticks == world.tables[<<entity, component_id>>]
    IN  IF is_changed(component_ticks, oldest_client_tick, this_run)
        THEN << >>
        ELSE << [replication_id   |-> hit.replication_id,
                 replication_info |-> hit.replication_info,
                 component_ptr    |-> [storage |-> "Table", entity |-> entity,
                                       component_id |-> component_id],
                 component_ticks  |-> component_ticks] >>

\* Fault: the changed tick is compared with the bound by raw `>`.
table_candidate_raw_order(world, hit, entity, component_id, this_run, oldest_client_tick) ==
    LET component_ticks == world.tables[<<entity, component_id>>]
    IN  IF ~ (component_ticks.changed > oldest_client_tick)
        THEN << >>
        ELSE << [replication_id   |-> hit.replication_id,
                 replication_info |-> hit.replication_info,
                 component_ptr    |-> [storage |-> "Table", entity |-> entity,
                                       component_id |-> component_id],
                 component_ticks  |-> component_ticks] >>

\* Fault: the table branch looks for changes since the previous frame only.
table_candidate_since_last_run(world, hit, entity, component_id, this_run, oldest_client_tick) ==
    LET component_ticks == world.tables[<<entity, component_id>>]
    IN  IF ~ is_changed(component_ticks, wrapping_sub(this_run, 1), this_run)
        THEN << >>
        ELSE << [replication_id   |-> hit.replication_id,
                 replication_info |-> hit.replication_info,
                 component_ptr    |-> [storage |-> "Table", entity |-> entity,
                                       component_id |-> component_id],
                 component_ticks  |-> component_ticks] >>

\* StorageType::Table branch: ticks and data come from the table column.
table_candidate(world, hit, entity, component_id, this_run, oldest_client_tick) ==
    LET component_ticks == world.tables[<<entity, component_id>>]
    IN  IF ~ is_changed(component_ticks, oldest_client_tick, this_run)
        THEN << >>
        ELSE << [replication_id   |-> hit.replication_id,
                 replication_info |-> hit.replication_info,
                 component_ptr    |-> [storage |-> "Table", entity |-> entity,
                                       component_id |-> component_id],
                 component_ticks  |-> component_ticks] >>

\* Fault: the sparse-set branch tests the added tick (is_added).
sparse_set_candidate_by_added(world, hit, entity, component_id, this_run, oldest_client_tick) ==
    LET sparse_set == world.sparse_sets[component_id]
        component_ticks == sparse_set[entity]
    IN  IF ~ is_newer_than(component_ticks.added, oldest_client_tick, this_run)
        THEN << >>
        ELSE << [replication_id   |-> hit.replication_id,
                 replication_info |-> hit.replication_info,
                 component_ptr    |-> [storage |-> "SparseSet", entity |-> entity,
                                       component_id |-> component_id],
                 component_ticks  |-> component_ticks] >>

\* StorageType::SparseSet branch: ticks and data come from the sparse set.
sparse_set_candidate(world, hit, entity, component_id, this_run, oldest_client_tick) ==
    LET sparse_set == world.sparse_sets[component_id]
        component_ticks == sparse_set[entity]
    IN  IF ~ is_changed(component_ticks, oldest_client_tick, this_run)
        THEN << >>
        ELSE << [replication_id   |-> hit.replication_id,
                 replication_info |-> hit.replication_info,
                 component_ptr    |-> [storage |-> "SparseSet", entity |-> entity,
                                       component_id |-> component_id],
                 component_ticks  |-> component_ticks] >>

\* Fault: the check for the Ignored marker is missing.
filter_component_candidate_no_ignore(world, replication_rules, archetype, entity, this_run, oldest_client_tick, component_id) ==
    LET found == rules_get(replication_rules, component_id)
    IN  IF found = << >> THEN << >>
        ELSE LET storage_type == get_storage_type(world, archetype, component_id)[1]
             IN  IF storage_type = "Table"
                 THEN table_candidate(world, found[1], entity, component_id,
                                      this_run, oldest_client_tick)
                 ELSE sparse_set_candidate(world, found[1], entity, component_id,
                                           this_run, oldest_client_tick)

\* The closure filter_component_candidate: Some(candidate) or None.
filter_component_candidate(world, replication_rules, archetype, entity, this_run, oldest_client_tick, component_id) ==
    LET found == rules_get(replication_rules, component_id)
    IN  IF found = << >> THEN << >>
        ELSE IF contains(archetype, found[1].replication_info.ignored_id) THEN << >>
        ELSE LET storage_type == get_storage_type(world, archetype, component_id)[1]
             IN  IF storage_type = "Table"
                 THEN table_candidate(world, found[1], entity, component_id,
                                      this_run, oldest_client_tick)
                 ELSE sparse_set_candidate(world, found[1], entity, component_id,
                                           this_run, oldest_client_tick)

\* The EntityCandidate pushed for one entity of an archetype.
entity_candidate(world, replication_rules, archetype, entity, this_run, oldest_client_tick) ==
    LET ids == components(world, archetype)
        component_candidates ==
            Flatten([i \in DOMAIN ids |->
                filter_component_candidate(world, replication_rules, archetype, entity,
                                           this_run, oldest_client_tick, ids[i])])
    IN  [ entity |-> entity,
          replication_component |->
              [storage |-> "Table", entity |-> entity,
               component_id |-> get_marker_id(replication_rules)],
          changed_component_candidates |-> component_candidates,
          removed_component_candidates |->
              removal_candidates(world, archetype, entity, this_run, oldest_client_tick) ]

\* The archetype filter: not EMPTY (element 1), not INVALID (never an element),
\* and containing the replication marker.
\* Fault: archetypes without the RemovalTracker are filtered out as well.
archetype_selected_tracked_only(world, replication_rules, i) ==
    /\ world.archetypes[i].components # {}
    /\ contains(world.archetypes[i], get_marker_id(replication_rules))
    /\ contains(world.archetypes[i], "RemovalTracker")

archetype_selected(world, replication_rules, i) ==
    /\ i # 1
    /\ i \in DOMAIN world.archetypes
    /\ contains(world.archetypes[i], get_marker_id(replication_rules))

\* Fault: an entity with nothing to send is left out of the result.
collect_candidates_skipping_empty(world, replication_rules, this_run, oldest_client_tick) ==
    SelectSeq(
        Flatten([i \in DOMAIN world.archetypes |->
            IF archetype_selected(world, replication_rules, i)
            THEN LET archetype == world.archetypes[i]
                 IN  [j \in DOMAIN archetype.entities |->
                        entity_candidate(world, replication_rules, archetype,
                                         archetype.entities[j], this_run, oldest_client_tick)]
            ELSE << >>]),
        LAMBDA x : x.changed_component_candidates # << >> \/ x.removed_component_candidates # << >>)

collect_candidates(world, replication_rules, this_run, oldest_client_tick) ==
    Flatten([i \in DOMAIN world.archetypes |->
        IF archetype_selected(world, replication_rules, i)
        THEN LET archetype == world.archetypes[i]
             IN  [j \in DOMAIN archetype.entities |->
                    entity_candidate(world, replication_rules, archetype,
                                     archetype.entities[j], this_run, oldest_client_tick)]
        ELSE << >>])

(***************************************************************************)
(* State.                                                                  *)
(***************************************************************************)
VARIABLES
    world,              \* the server's World
    replication_rules,  \* ReplicationRules, fixed when the app is built
    this_run,           \* the tick of the running frame
    phase,              \* "update": commands and transport events are applied
                        \* "sent": the diffs of this frame have been collected
    frames,             \* frames completed
    inputs,             \* application commands, connects and disconnects applied
    connected,          \* the client ids the transport reports as connected
    acks,               \* client record -> last acknowledged tick
    bound,              \* the oldest_client_tick of the last collection
    candidates,         \* the result of the last collect_candidates
    messages,           \* connected client -> the diff built for it this frame
    sent_tick,          \* client -> tick of the last diff handed to the transport
    server_to_client,   \* NetworkEntityMap, server entity -> client entity
    client_to_server,   \* NetworkEntityMap, client entity -> server entity
    network_channels,   \* NetworkChannels: the client channels created, by policy
    event_channel,      \* event type -> its EventChannel<T> and its systems
    renet_client,       \* app -> the RenetClient resource exists in it
    entity_map,         \* client app -> its NetworkEntityMap
    events,             \* app -> event type -> Events<T>, oldest first
    reader,             \* app -> event type -> event count of the EventReader<T>
    stage,              \* app -> event type -> position in the frame
    wire,               \* client -> channel -> messages the server can receive
    from_client,        \* app -> event type -> the FromClient<T> events emitted
    errors,             \* client -> error reports of the receiving systems
    panicked,           \* the apps that have panicked
    values,             \* <<entity, component>> -> the server's data of the component
    payload,            \* the diff on its way to the client, with the data it carries
    client_world,       \* the client's World: local entity -> component -> data
    last_tick           \* the tick of the last diff the client received

worldVars == <<world, replication_rules>>
clockVars == <<this_run, phase, frames>>
sendVars  == <<bound, candidates, messages, sent_tick>>
mapVars   == <<server_to_client, client_to_server>>
netVars   == <<connected, acks>>
buildVars == <<network_channels, event_channel>>
relayVars == <<renet_client, entity_map, events, reader, stage, wire, from_client,
               errors, panicked>>
exchangeVars == <<values, payload, client_world, last_tick>>
vars == <<world, replication_rules, this_run, phase, frames, inputs, connected, acks,
          bound, candidates, messages, sent_tick, server_to_client, client_to_server,
          network_channels, event_channel, renet_client, entity_map, events, reader,
          stage, wire, from_client, errors, panicked, values, payload, client_world,
          last_tick>>

(***************************************************************************)
(* World commands.  Every structural change moves the entity to the        *)
(* archetype of its new component set (created on first use, appended to   *)
(* the archetype list) and swap-removes it from the old one.               *)
(***************************************************************************)
FreshTicks(tick) == [added |-> tick, changed |-> tick]

place_entity(archetypes, entity, comps) ==
    IF \E i \in DOMAIN archetypes : archetypes[i].components = comps
    THEN LET i == CHOOSE i \in DOMAIN archetypes : archetypes[i].components = comps
         IN  [archetypes EXCEPT ![i].entities = Append(@, entity)]
    ELSE Append(archetypes, [components |-> comps, entities |-> <<entity>>])

take_entity(archetypes, entity) ==
    LET i == CHOOSE i \in DOMAIN archetypes : entity \in Range(archetypes[i].entities)
    IN  [archetypes EXCEPT ![i].entities = swap_remove(@, IndexOf(@, entity))]

move_entity(archetypes, entity, comps) ==
    place_entity(take_entity(archetypes, entity), entity, comps)

\* Component storage after `entity` received data component c at `tick`.
with_ticks(w, entity, c, tick) ==
    IF w.storage_type[c] = "Table"
    THEN [w EXCEPT !.tables = (<<entity, c>> :> FreshTicks(tick)) @@ @]
    ELSE [w EXCEPT !.sparse_sets[c] = (entity :> FreshTicks(tick)) @@ @]

\* Component storage after data component c was taken from `entity`.
without_ticks(w, entity, c) ==
    IF w.storage_type[c] = "Table"
    THEN [w EXCEPT !.tables = Restrict(@, DOMAIN @ \ {<<entity, c>>})]
    ELSE [w EXCEPT !.sparse_sets[c] = Restrict(@, DOMAIN @ \ {entity})]

RECURSIVE with_bundle(_, _, _, _)
with_bundle(w, entity, comps, tick) ==
    IF comps = {} THEN w
    ELSE LET c == CHOOSE c \in comps : TRUE
         IN  with_bundle(with_ticks(w, entity, c, tick), entity, comps \ {c}, tick)

\* The bundles the application spawns: replicated entities, and one that is
\* not replicated.
SpawnBundles == {{"Replication", "A", "B"}, {"Replication", "A"}, {"A", "B"}}

\* world.spawn(bundle): the next entity id, in the archetype of the bundle.
Spawn(bundle) ==
    LET entity == Cardinality(Spawned(world)) + 1
        w == [world EXCEPT !.archetypes = place_entity(@, entity, bundle)]
    IN  /\ phase = "update"
        /\ entity \in Entities
        /\ world' = with_bundle(w, entity, bundle \cap DataComponents, this_run)
        /\ UNCHANGED <<replication_rules, clockVars, netVars, sendVars, mapVars>>

InsertableComponents == {"Replication", "A", "B", "IgnoredA"}

\* entity.insert(c) of a component the entity does not have.
Insert(entity, c) ==
    /\ phase = "update"
    /\ entity \in Spawned(world)
    /\ c \notin ComponentsOf(world, entity)
    /\ LET comps == ComponentsOf(world, entity) \cup {c}
           w == [world EXCEPT !.archetypes = move_entity(@, entity, comps)]
       IN  world' = IF c \in DataComponents THEN with_ticks(w, entity, c, this_run) ELSE w
    /\ UNCHANGED <<replication_rules, clockVars, netVars, sendVars, mapVars>>

\* The RemovalTracker is inserted on a replicated entity by a later system
\* run, so a replicated entity may be collected without it.
InsertRemovalTracker(entity) ==
    /\ phase = "update"
    /\ entity \in Spawned(world)
    /\ "Replication" \in ComponentsOf(world, entity)
    /\ "RemovalTracker" \notin ComponentsOf(world, entity)
    /\ LET comps == ComponentsOf(world, entity) \cup {"RemovalTracker"}
       IN  world' = [world EXCEPT !.archetypes = move_entity(@, entity, comps),
                                  !.trackers = (entity :> << >>) @@ @]
    /\ UNCHANGED <<replication_rules, clockVars, netVars, sendVars, mapVars>>

\* RemovalTracker map insert: an existing key keeps its place, a new key
\* lands at position `at` of the iteration order.
tracker_insert(tracker, replication_id, tick, at) ==
    IF \E i \in DOMAIN tracker : tracker[i].replication_id = replication_id
    THEN [i \in DOMAIN tracker |->
            IF tracker[i].replication_id = replication_id
            THEN [replication_id |-> replication_id, tick |-> tick]
            ELSE tracker[i]]
    ELSE InsertAt(tracker, at, [replication_id |-> replication_id, tick |-> tick])

RemovableComponents == {"A", "B", "IgnoredA"}

\* entity.remove(c); the removal of a registered component is recorded in
\* the entity's RemovalTracker with the tick of the removal.
Remove(entity, c, at) ==
    /\ phase = "update"
    /\ entity \in Spawned(world)
    /\ c \in ComponentsOf(world, entity)
    /\ LET comps == ComponentsOf(world, entity) \ {c}
           moved == [world EXCEPT !.archetypes = move_entity(@, entity, comps)]
           w == IF c \in DataComponents THEN without_ticks(moved, entity, c) ELSE moved
           found == rules_get(replication_rules, c)
           tracked == "RemovalTracker" \in comps /\ found # << >>
       IN  /\ at \in 1 .. (IF tracked THEN Len(world.trackers[entity]) + 1 ELSE 1)
           /\ world' = IF tracked
                       THEN [w EXCEPT !.trackers[entity] =
                                tracker_insert(@, found[1].replication_id, this_run, at)]
                       ELSE w
    /\ UNCHANGED <<replication_rules, clockVars, netVars, sendVars, mapVars>>

\* A mutable access to data component c (`dc.1 += 1`): its changed tick
\* becomes the tick of the running frame.
Mutate(entity, c) ==
    /\ phase = "update"
    /\ entity \in Spawned(world)
    /\ c \in ComponentsOf(world, entity) \cap DataComponents
    /\ world' = IF world.storage_type[c] = "Table"
                THEN [world EXCEPT !.tables[<<entity, c>>].changed = this_run]
                ELSE [world EXCEPT !.sparse_sets[c][entity].changed = this_run]
    /\ UNCHANGED <<replication_rules, clockVars, netVars, sendVars, mapVars>>

(***************************************************************************)
(* Per-client tick window.                                                 *)
(***************************************************************************)
\* The age of a tick behind the running one, by wrapping subtraction.
age(tick, current) == relative_to(current, tick)

\* The oldest acknowledged tick over the connected clients, or the current
\* tick when no client is connected.
oldest_tick(acked, current) ==
    IF DOMAIN acked = {} THEN current
    ELSE CHOOSE t \in Range(acked) :
            \A u \in Range(acked) : age(u, current) <= age(t, current)

\* A client connects; its record starts with acknowledged tick `tick`.
Connect(client, tick) ==
    /\ phase = "update"
    /\ client \notin connected
    /\ connected' = connected \cup {client}
    /\ acks' = (client :> tick) @@ acks
    /\ UNCHANGED <<worldVars, clockVars, sendVars, mapVars>>

\* The transport reports that `client` acknowledged `tick`, a tick later
\* than the one it had acknowledged and not later than the running one.
Ack(client, tick) ==
    /\ phase = "update"
    /\ client \in connected
    /\ age(tick, this_run) < age(acks[client], this_run)
    /\ acks' = [acks EXCEPT ![client] = tick]
    /\ UNCHANGED <<worldVars, clockVars, connected, sendVars, mapVars>>

\* Fault: the record of the client outlives the connection.
Disconnect_keeps_record(client) ==
    /\ phase = "update"
    /\ client \in connected
    /\ connected' = connected \ {client}
    /\ UNCHANGED <<worldVars, clockVars, acks, sendVars, mapVars>>

\* A client disconnects: its record is destroyed.
Disconnect(client) ==
    /\ phase = "update"
    /\ client \in connected
    /\ connected' = connected \ {client}
    /\ acks' = Restrict(acks, DOMAIN acks \ {client})
    /\ sent_tick' = Restrict(sent_tick, DOMAIN sent_tick \ {client})
    /\ UNCHANGED <<worldVars, clockVars, bound, candidates, messages, mapVars>>

(***************************************************************************)
(* Message builder: the candidates cut against one client's own tick.      *)
(***************************************************************************)
\* Fault: the candidates go into the diff without the cut.
client_changes_uncut(entity_candidate_, client_tick, current) ==
    LET kept == entity_candidate_.changed_component_candidates
    IN  [i \in DOMAIN kept |->
            [replication_id |-> kept[i].replication_id,
             tick |-> kept[i].component_ticks.changed]]

client_changes(entity_candidate_, client_tick, current) ==
    LET kept == SelectSeq(entity_candidate_.changed_component_candidates,
                    LAMBDA c : is_changed(c.component_ticks, client_tick, current))
    IN  [i \in DOMAIN kept |->
            [replication_id |-> kept[i].replication_id,
             tick |-> kept[i].component_ticks.changed]]

client_removals(entity_candidate_, client_tick, current) ==
    SelectSeq(entity_candidate_.removed_component_candidates,
              LAMBDA r : is_newer_than(r.tick, client_tick, current))

build_message(cands, client_tick, current) ==
    [ tick |-> current,
      entities |-> [i \in DOMAIN cands |->
          [ entity   |-> cands[i].entity,
            changes  |-> client_changes(cands[i], client_tick, current),
            removals |-> client_removals(cands[i], client_tick, current) ]] ]

\* Fault: the scan takes the removal entries it yields out of the trackers.
SendDiffs_consuming ==
    LET oldest == oldest_tick(acks, this_run)
        cands == collect_candidates(world, replication_rules, this_run, oldest)
    IN  /\ phase = "update"
        /\ bound' = oldest
        /\ candidates' = cands
        /\ messages' = [c \in connected |-> build_message(cands, acks[c], this_run)]
        /\ sent_tick' = [c \in connected |-> this_run]
        /\ phase' = "sent"
        /\ world' = [world EXCEPT !.trackers =
                        [e \in DOMAIN @ |->
                            SelectSeq(@[e], LAMBDA r : ~ is_newer_than(r.tick, oldest, this_run))]]
        /\ UNCHANGED <<replication_rules, this_run, frames, inputs, netVars, mapVars>>

\* The server's sending system of one frame: one scan bounded by the oldest
\* client tick, then one message per connected client.
SendDiffs ==
    LET oldest == oldest_tick(acks, this_run)
        cands == collect_candidates(world, replication_rules, this_run, oldest)
    IN  /\ phase = "update"
        /\ bound' = oldest
        /\ candidates' = cands
        /\ messages' = [c \in connected |-> build_message(cands, acks[c], this_run)]
        /\ sent_tick' = [c \in connected |-> this_run]
        /\ phase' = "sent"
        /\ UNCHANGED <<worldVars, this_run, frames, inputs, netVars, mapVars>>

\* The schedule starts the next frame with the next tick; the candidates
\* and the diffs of the finished frame are gone.
NextFrame ==
    /\ phase = "sent"
    /\ frames < MaxFrames
    /\ this_run' = wrapping_add(this_run, 1)
    /\ frames' = frames + 1
    /\ phase' = "update"
    /\ bound' = this_run'
    /\ candidates' = << >>
    /\ messages' = << >>
    /\ UNCHANGED <<worldVars, inputs, netVars, sent_tick, mapVars>>

(***************************************************************************)
(* Network entity map.                                                     *)
(***************************************************************************)
MaxMapIds == 4
ServerIds == 10 .. (9 + MaxMapIds)
ClientIds == 1 .. MaxMapIds
Unmapped == 0

to_client(s2c, server_id) == IF server_id \in DOMAIN s2c THEN s2c[server_id] ELSE Unmapped
to_server(c2s, client_id) == IF client_id \in DOMAIN c2s THEN c2s[client_id] ELSE Unmapped

\* Fault: both maps are updated without dropping the entries they alias.
map_insert_naive(s2c, c2s, server_id, client_id) ==
    [ s2c |-> (server_id :> client_id) @@ s2c,
      c2s |-> (client_id :> server_id) @@ c2s ]

\* Both directions after insert(server_id, client_id): entries that alias
\* the new pair on either side are dropped, then the pair is stored.
map_insert(s2c, c2s, server_id, client_id) ==
    LET stale_s == {s \in DOMAIN s2c : s = server_id \/ s2c[s] = client_id}
        stale_c == {c \in DOMAIN c2s : c = client_id \/ c2s[c] = server_id}
    IN  [ s2c |-> (server_id :> client_id) @@ Restrict(s2c, DOMAIN s2c \ stale_s),
          c2s |-> (client_id :> server_id) @@ Restrict(c2s, DOMAIN c2s \ stale_c) ]

\* Both directions after remove(server_id).
map_remove(s2c, c2s, server_id) ==
    [ s2c |-> Restrict(s2c, DOMAIN s2c \ {server_id}),
      c2s |-> Restrict(c2s, {c \in DOMAIN c2s : c2s[c] # server_id}) ]

MapInsert(server_id, client_id) ==
    LET m == map_insert(server_to_client, client_to_server, server_id, client_id)
    IN  /\ server_to_client' = m.s2c
        /\ client_to_server' = m.c2s
        /\ UNCHANGED <<worldVars, clockVars, inputs, netVars, sendVars>>

MapRemove(server_id) ==
    LET m == map_remove(server_to_client, client_to_server, server_id)
    IN  /\ server_id \in DOMAIN server_to_client
        /\ server_to_client' = m.s2c
        /\ client_to_server' = m.c2s
        /\ UNCHANGED <<worldVars, clockVars, inputs, netVars, sendVars>>

(***************************************************************************)
(* Client events (network_event/client_event.rs).  An app is the server    *)
(* or a client; an app without RenetClient has authority.  A serialized    *)
(* event is the sequence of its fields; a message deserializes as T when   *)
(* it holds exactly the fields of T.                                       *)
(***************************************************************************)
MaxRelayClients == 2

SERVER_ID == 0
RelayClients == 1 .. MaxRelayClients
Apps == {SERVER_ID} \cup RelayClients

EventTypes == {"Plain", "Mapped"}
ChannelIds == 1 .. Cardinality(EventTypes)
\* The delivery policy the application gives each event type.
PolicyOf(T) == IF T = "Plain" THEN "ReliableOrdered" ELSE "Unreliable"
\* The client entities an event may refer to; a Plain event has no entity.
NoEntity == 0
EventEntities(T) == IF T = "Mapped" THEN {1, 2} ELSE {NoEntity}
\* Messages that are no serialized event.
RawMessages == {<<9, 9, 9>>}

serialize(T, event) ==
    IF T = "Mapped" THEN <<event.id, event.entity>> ELSE <<event.id>>

\* Ok(event) as <<event>>, Err as << >>.
deserialize(T, message) ==
    IF T = "Mapped"
    THEN IF Len(message) = 2
         THEN << [id |-> message[1], entity |-> message[2]] >> ELSE << >>
    ELSE IF Len(message) = 1
         THEN << [id |-> message[1], entity |-> NoEntity] >> ELSE << >>

\* event.map_entities(&mut EventMapper(map)); the mapper panics on an
\* entity the map does not hold.
mappable(c2s, event) == to_server(c2s, event.entity) # Unmapped
map_entities(c2s, event) == [event EXCEPT !.entity = to_server(c2s, @)]

client_connected(p) == renet_client[p] /\ p \in connected
\* Fault: the local path runs whether or not a RenetClient exists.
has_authority_always(p) == TRUE

has_authority(p) == ~ renet_client[p]
registered(T) == T \in DOMAIN event_channel

\* NetworkChannels::create_client_channel: the id of the new channel.
create_client_channel(channels, policy) == Len(channels) + 1

\* App::add_client_event_with, applied by the common setup of all apps.
add_client_event_with(T, policy, sending, receiving) ==
    /\ ~ registered(T)
    /\ network_channels' = Append(network_channels, policy)
    /\ event_channel' = (T :> [id |-> create_client_channel(network_channels, policy),
                               sending |-> sending, receiving |-> receiving])
                         @@ event_channel
    /\ UNCHANGED <<worldVars, clockVars, inputs, netVars, sendVars, mapVars, relayVars>>

add_client_event(T, policy) ==
    add_client_event_with(T, policy, "sending_system", "receiving_system")

add_mapped_client_event(T, policy) ==
    /\ T = "Mapped"
    /\ add_client_event_with(T, policy, "mapping_and_sending_system", "receiving_system")

add_client_reflect_event(T, policy) ==
    add_client_event_with(T, policy, "sending_reflect_system", "receiving_reflect_system")

add_mapped_client_reflect_event(T, policy) ==
    /\ T = "Mapped"
    /\ add_client_event_with(T, policy, "mapping_and_sending_reflect_system",
                             "receiving_reflect_system")
\* The apps run once every event type is registered.
built == DOMAIN event_channel = EventTypes

\* One frame of event type T in app p: its ClientSet::Send systems run in
\* PostUpdate, then Events<T> is updated at the start of the next frame.
\* Frames in which Events<T> is empty change nothing and are left out.
ClientSet_Send(p, T) ==
    /\ built
    /\ p \notin panicked
    /\ stage[p][T] = "Update"
    /\ events[p][T] # << >>
    /\ UNCHANGED <<worldVars, clockVars, inputs, netVars, sendVars, mapVars, buildVars,
                   renet_client, entity_map>>

\* PostUpdate is over for T in app p.
frame_flushed(p, T) ==
    stage' = [stage EXCEPT ![p][T] = IF events'[p][T] = << >> THEN "Update" ELSE "Last"]

\* Events<T>::update: the events of the frame before last are dropped.
event_update_system(p, T) ==
    /\ built
    /\ p \notin panicked
    /\ stage[p][T] = "Last"
    /\ stage' = [stage EXCEPT ![p][T] = "Update"]
    /\ events' = [events EXCEPT ![p][T] =
                     LET kept == SelectSeq(@, LAMBDA x : x.gen = 0)
                     IN  [i \in DOMAIN kept |-> [kept[i] EXCEPT !.gen = 1]]]
    /\ UNCHANGED <<worldVars, clockVars, inputs, netVars, sendVars, mapVars, buildVars,
                   renet_client, entity_map, reader, wire, from_client, errors, panicked>>

\* EventReader<T>: the events sent since the reader last ran.
unread(p, T) == SelectSeq(events[p][T], LAMBDA x : x.event.id > reader[p][T])

\* Fault: the system reads the events without moving its reader on.
sending_system_rereading(p, T) ==
    LET sent == [i \in DOMAIN unread(p, T) |-> serialize(T, unread(p, T)[i].event)]
    IN  /\ wire' = [wire EXCEPT ![p][event_channel[T].id] = @ \o sent]
        /\ UNCHANGED <<reader, events, from_client, errors, panicked>>

sending_system(p, T) ==
    LET sent == [i \in DOMAIN unread(p, T) |-> serialize(T, unread(p, T)[i].event)]
    IN  /\ wire' = [wire EXCEPT ![p][event_channel[T].id] = @ \o sent]
        /\ reader' = [reader EXCEPT ![p][T] =
                         IF sent = << >> THEN @ ELSE unread(p, T)[Len(sent)].event.id]
        /\ UNCHANGED <<events, from_client, errors, panicked>>

\* Fault: the messages go to the first client channel.
sending_reflect_system_first_channel(p, T) ==
    LET sent == [i \in DOMAIN unread(p, T) |-> serialize(T, unread(p, T)[i].event)]
    IN  /\ wire' = [wire EXCEPT ![p][1] = @ \o sent]
        /\ reader' = [reader EXCEPT ![p][T] =
                         IF sent = << >> THEN @ ELSE unread(p, T)[Len(sent)].event.id]
        /\ UNCHANGED <<events, from_client, errors, panicked>>

sending_reflect_system(p, T) ==
    LET sent == [i \in DOMAIN unread(p, T) |-> serialize(T, unread(p, T)[i].event)]
    IN  /\ wire' = [wire EXCEPT ![p][event_channel[T].id] = @ \o sent]
        /\ reader' = [reader EXCEPT ![p][T] =
                         IF sent = << >> THEN @ ELSE unread(p, T)[Len(sent)].event.id]
        /\ UNCHANGED <<events, from_client, errors, panicked>>

\* The events of a drained queue that are mapped, serialized and sent before
\* the mapper panics, if it does.
mapped_prefix(c2s, drained) ==
    LET bad == {i \in DOMAIN drained : ~ mappable(c2s, drained[i].event)}
    IN  IF bad = {} THEN Len(drained)
        ELSE (CHOOSE i \in bad : \A j \in bad : i <= j) - 1

\* Fault: the event is serialized as it was raised.
mapping_and_sending_system_unmapped(p, T) ==
    LET drained == events[p][T]
        sent == [i \in DOMAIN drained |-> serialize(T, drained[i].event)]
    IN  /\ events' = [events EXCEPT ![p][T] = << >>]
        /\ wire' = [wire EXCEPT ![p][event_channel[T].id] = @ \o sent]
        /\ UNCHANGED <<reader, from_client, errors, panicked>>

mapping_and_sending_system(p, T) ==
    LET drained == events[p][T]
        to_server_ == entity_map[p].c2s
        n == mapped_prefix(to_server_, drained)
        sent == [i \in 1 .. n |-> serialize(T, map_entities(to_server_, drained[i].event))]
    IN  /\ events' = [events EXCEPT ![p][T] = << >>]
        /\ wire' = [wire EXCEPT ![p][event_channel[T].id] = @ \o sent]
        /\ panicked' = IF n = Len(drained) THEN panicked ELSE panicked \cup {p}
        /\ UNCHANGED <<reader, from_client, errors>>

mapping_and_sending_reflect_system(p, T) ==
    LET drained == events[p][T]
        to_server_ == entity_map[p].c2s
        n == mapped_prefix(to_server_, drained)
        sent == [i \in 1 .. n |-> serialize(T, map_entities(to_server_, drained[i].event))]
    IN  /\ events' = [events EXCEPT ![p][T] = << >>]
        /\ wire' = [wire EXCEPT ![p][event_channel[T].id] = @ \o sent]
        /\ panicked' = IF n = Len(drained) THEN panicked ELSE panicked \cup {p}
        /\ UNCHANGED <<reader, from_client, errors>>

local_resending_system_reading(p, T) ==
    LET drained == events[p][T]
    IN  /\ events' = events
        /\ from_client' = [from_client EXCEPT ![p][T] =
                @ \o [i \in DOMAIN drained |->
                        [client_id |-> SERVER_ID, event |-> drained[i].event]]]
        /\ UNCHANGED <<reader, wire, errors, panicked>>

local_resending_system(p, T) ==
    LET drained == events[p][T]
    IN  /\ events' = [events EXCEPT ![p][T] = << >>]
        /\ from_client' = [from_client EXCEPT ![p][T] =
                @ \o [i \in DOMAIN drained |->
                        [client_id |-> SERVER_ID, event |-> drained[i].event]]]
        /\ UNCHANGED <<reader, wire, errors, panicked>>

\* Neither run condition of the chain holds: the client is not connected.
no_system_runs == UNCHANGED <<events, reader, wire, from_client, errors, panicked>>

\* The FromClient events one client's queue yields, and its failures.
received(T, client_id, queue) ==
    Flatten([i \in DOMAIN queue |->
        LET result == deserialize(T, queue[i])
        IN  IF result = << >> THEN << >>
            ELSE << [client_id |-> client_id, event |-> result[1]] >>])

failures(T, queue) == Len(SelectSeq(queue, LAMBDA message : deserialize(T, message) = << >>))

\* server.clients_id(): the connected clients in the transport's order.
clients_id == {order \in [1 .. Cardinality(connected) -> connected] :
                 \A i, j \in DOMAIN order : order[i] = order[j] => i = j}

\* Fault: one message of each client is received in a run (`if let`).
receiving_system_one_message(T, order) ==
    LET id == event_channel[T].id
        first(queue) == IF queue = << >> THEN << >> ELSE << Head(queue) >>
    IN  /\ from_client' = [from_client EXCEPT ![SERVER_ID][T] =
                @ \o Flatten([k \in DOMAIN order |->
                        received(T, order[k], first(wire[order[k]][id]))])]
        /\ wire' = [c \in DOMAIN wire |->
                IF c \in connected /\ wire[c][id] # << >>
                THEN [wire[c] EXCEPT ![id] = Tail(@)] ELSE wire[c]]
        /\ errors' = [c \in DOMAIN errors |->
                IF c \in connected
                THEN errors[c] + failures(T, first(wire[c][id])) ELSE errors[c]]

receiving_system(T, order) ==
    LET id == event_channel[T].id
    IN  /\ from_client' = [from_client EXCEPT ![SERVER_ID][T] =
                @ \o Flatten([k \in DOMAIN order |-> received(T, order[k], wire[order[k]][id])])]
        /\ wire' = [c \in DOMAIN wire |->
                IF c \in connected THEN [wire[c] EXCEPT ![id] = << >>] ELSE wire[c]]
        /\ errors' = [c \in DOMAIN errors |->
                IF c \in connected THEN errors[c] + failures(T, wire[c][id]) ELSE errors[c]]

\* Fault: the first message that fails to deserialize ends the run.
receiving_reflect_system_aborting(T, order) ==
    LET id == event_channel[T].id
        bad == {<<k, i>> \in (DOMAIN order) \X (1 .. MaxInputs) :
                    /\ i \in DOMAIN wire[order[k]][id]
                    /\ deserialize(T, wire[order[k]][id][i]) = << >>}
        first == IF bad = {} THEN <<Len(order) + 1, 0>>
                 ELSE CHOOSE x \in bad : \A y \in bad :
                        x[1] < y[1] \/ (x[1] = y[1] /\ x[2] <= y[2])
        taken(k) == IF k < first[1] THEN wire[order[k]][id]
                    ELSE IF k = first[1] THEN SubSeq(wire[order[k]][id], 1, first[2])
                    ELSE << >>
        position(c) == CHOOSE k \in DOMAIN order : order[k] = c
    IN  /\ from_client' = [from_client EXCEPT ![SERVER_ID][T] =
                @ \o Flatten([k \in DOMAIN order |-> received(T, order[k], taken(k))])]
        /\ wire' = [c \in DOMAIN wire |->
                IF c \in connected
                THEN [wire[c] EXCEPT ![id] = SubSeq(@, Len(taken(position(c))) + 1, Len(@))]
                ELSE wire[c]]
        /\ errors' = [c \in DOMAIN errors |->
                IF c \in connected THEN errors[c] + failures(T, taken(position(c)))
                ELSE errors[c]]

receiving_reflect_system(T, order) ==
    LET id == event_channel[T].id
    IN  /\ from_client' = [from_client EXCEPT ![SERVER_ID][T] =
                @ \o Flatten([k \in DOMAIN order |-> received(T, order[k], wire[order[k]][id])])]
        /\ wire' = [c \in DOMAIN wire |->
                IF c \in connected THEN [wire[c] EXCEPT ![id] = << >>] ELSE wire[c]]
        /\ errors' = [c \in DOMAIN errors |->
                IF c \in connected THEN errors[c] + failures(T, wire[c][id]) ELSE errors[c]]

\* ServerSet::Receive of the server app for event type T (PreUpdate).
ServerSet_Receive(T) ==
    /\ built
    /\ SERVER_ID \notin panicked
    /\ UNCHANGED <<worldVars, clockVars, inputs, netVars, sendVars, mapVars, buildVars,
                   renet_client, entity_map, events, reader, stage, panicked>>

\* The application of app p sends an event of type T.
RaiseEvent(p, T, entity) ==
    /\ built
    /\ p \notin panicked
    /\ events' = [events EXCEPT ![p][T] =
                     Append(@, [event |-> [id |-> inputs + 1, entity |-> entity], gen |-> 0])]
    /\ UNCHANGED <<worldVars, clockVars, netVars, sendVars, mapVars, buildVars,
                   renet_client, entity_map, reader, stage, wire, from_client, errors, panicked>>

\* A client puts bytes on a channel that are no serialized event.
SendRaw(client, id, message) ==
    /\ built
    /\ client \in connected
    /\ id \in DOMAIN network_channels
    /\ wire' = [wire EXCEPT ![client][id] = Append(@, message)]
    /\ UNCHANGED <<worldVars, clockVars, netVars, sendVars, mapVars, buildVars,
                   renet_client, entity_map, events, reader, stage, from_client, errors, panicked>>

\* A client learns of a server entity and maps it to a local one.
ClientMapInsert(client, server_id, client_id) ==
    /\ client \notin panicked
    /\ entity_map' = [entity_map EXCEPT ![client] = map_insert(@.s2c, @.c2s, server_id, client_id)]
    /\ UNCHANGED <<worldVars, clockVars, netVars, sendVars, mapVars, buildVars,
                   renet_client, events, reader, stage, wire, from_client, errors, panicked>>

\* The transport connects and disconnects a client app; the messages of a
\* closed connection are gone.
RelayConnect(client) ==
    /\ renet_client[client]
    /\ Connect(client, wrapping_sub(this_run, MAX_CHANGE_AGE))
    /\ UNCHANGED <<inputs, buildVars, relayVars>>

RelayDisconnect(client) ==
    /\ Disconnect(client)
    /\ wire' = [wire EXCEPT ![client] = [id \in ChannelIds |-> << >>]]
    /\ UNCHANGED <<inputs, buildVars, renet_client, entity_map, events, reader, stage,
                   from_client, errors, panicked>>

\* A disconnected client app drops its RenetClient and goes on offline.
RemoveRenetClient(client) ==
    /\ renet_client[client]
    /\ client \notin connected
    /\ renet_client' = [renet_client EXCEPT ![client] = FALSE]
    /\ UNCHANGED <<worldVars, clockVars, inputs, netVars, sendVars, mapVars, buildVars,
                   entity_map, events, reader, stage, wire, from_client, errors, panicked>>

(***************************************************************************)
(* End-to-end exchange (benches/large_replication.rs): the server app and  *)
(* one client app; after each server update the diff built for the client  *)
(* is delivered and applied by the client, or lost, before the next one.   *)
(***************************************************************************)
MaxValue == 2

NoMessage == << >>
NoTick == TickRange
ExchangeClient == 1

NoExchange == UNCHANGED exchangeVars

\* The diff as it travels: every change with the data read behind its
\* component pointer when the message is built.
with_payloads(message, rules, vals) ==
    [ tick |-> message.tick,
      entities |-> [i \in DOMAIN message.entities |->
          LET entry == message.entities[i]
          IN  [ entity |-> entry.entity,
                changes |-> [j \in DOMAIN entry.changes |->
                    [ replication_id |-> entry.changes[j].replication_id,
                      value |-> vals[<<entry.entity,
                          rules.infos[entry.changes[j].replication_id].component_id>>] ]],
                removals |-> [j \in DOMAIN entry.removals |->
                    entry.removals[j].replication_id] ]] ]

\* Fault: the client spawns an entity for every entry of a diff.
apply_entity_spawning(client, entry, rules) ==
    LET local == Cardinality(DOMAIN client.world) + 1
        m == map_insert(client.s2c, client.c2s, entry.entity, local)
        ComponentOf(replication_id) == rules.infos[replication_id].component_id
        written == [c \in {ComponentOf(entry.changes[j].replication_id) :
                               j \in DOMAIN entry.changes} |->
                      LET j == CHOOSE j \in DOMAIN entry.changes :
                                  ComponentOf(entry.changes[j].replication_id) = c
                      IN  entry.changes[j].value]
    IN  [ s2c |-> m.s2c, c2s |-> m.c2s, world |-> (local :> written) @@ client.world ]

\* The client applies one entity of a diff: the server entity is looked up
\* in the map and spawned and mapped when it is unknown; the changes are
\* written and the removals taken out of the local entity.
apply_entity(client, entry, rules) ==
    LET known == to_client(client.s2c, entry.entity) # Unmapped
        local == IF known THEN to_client(client.s2c, entry.entity)
                 ELSE Cardinality(DOMAIN client.world) + 1
        m == IF known THEN [s2c |-> client.s2c, c2s |-> client.c2s]
             ELSE map_insert(client.s2c, client.c2s, entry.entity, local)
        old == IF known THEN client.world[local] ELSE << >>
        ComponentOf(replication_id) == rules.infos[replication_id].component_id
        written == [c \in {ComponentOf(entry.changes[j].replication_id) :
                               j \in DOMAIN entry.changes} |->
                      LET j == CHOOSE j \in DOMAIN entry.changes :
                                  ComponentOf(entry.changes[j].replication_id) = c
                      IN  entry.changes[j].value]
        removed == {ComponentOf(entry.removals[j]) : j \in DOMAIN entry.removals}
        new == written @@ old
    IN  [ s2c |-> m.s2c, c2s |-> m.c2s,
          world |-> (local :> Restrict(new, DOMAIN new \ removed)) @@ client.world ]

RECURSIVE apply_diff(_, _, _)
apply_diff(client, entries, rules) ==
    IF entries = << >> THEN client
    ELSE apply_diff(apply_entity(client, Head(entries), rules), Tail(entries), rules)

\* world.spawn(bundle) with the data of its components.
ExchangeSpawn(bundle) ==
    LET entity == Cardinality(Spawned(world)) + 1
    IN  /\ Spawn(bundle)
        /\ values' = [k \in {entity} \X (bundle \cap DataComponents) |-> 0] @@ values
        /\ UNCHANGED <<inputs, payload, client_world, last_tick>>

\* update_components_system: the data of a replicated entity is bumped.
update_components_system(entity, c) ==
    /\ Mutate(entity, c)
    /\ "Replication" \in ComponentsOf(world, entity)
    /\ values[<<entity, c>>] < MaxValue
    /\ values' = [values EXCEPT ![<<entity, c>>] = @ + 1]
    /\ UNCHANGED <<inputs, payload, client_world, last_tick>>

\* common::connect: the client has received nothing; its record starts at
\* a tick older than every change of the world.
ExchangeConnect ==
    /\ Connect(ExchangeClient, wrapping_sub(this_run, MAX_CHANGE_AGE - MaxFrames - 1))
    /\ UNCHANGED <<inputs, exchangeVars>>

\* Fault: the diff carries the data read when the entity was first sent.
ServerUpdate_stale ==
    /\ SendDiffs
    /\ payload' = IF ExchangeClient \in connected
                  THEN with_payloads(messages'[ExchangeClient], replication_rules,
                                     [k \in DOMAIN values |-> 0])
                  ELSE NoMessage
    /\ UNCHANGED <<values, client_world, last_tick>>

\* server_app.update(): the diffs are collected and handed to the transport.
ServerUpdate ==
    /\ SendDiffs
    /\ payload' = IF ExchangeClient \in connected
                  THEN with_payloads(messages'[ExchangeClient], replication_rules, values)
                  ELSE NoMessage
    /\ UNCHANGED <<values, client_world, last_tick>>

\* client_app.update(): the diff is applied and its tick kept for the
\* acknowledgment.
ClientUpdate ==
    LET client == apply_diff([s2c |-> server_to_client, c2s |-> client_to_server,
                              world |-> client_world],
                             payload.entities, replication_rules)
    IN  /\ phase = "sent"
        /\ payload # NoMessage
        /\ server_to_client' = client.s2c
        /\ client_to_server' = client.c2s
        /\ client_world' = client.world
        /\ last_tick' = payload.tick
        /\ payload' = NoMessage
        /\ UNCHANGED <<worldVars, clockVars, inputs, netVars, sendVars, values>>

\* The transport loses the diff.
Lose ==
    /\ phase = "sent"
    /\ payload # NoMessage
    /\ payload' = NoMessage
    /\ UNCHANGED <<worldVars, clockVars, inputs, netVars, sendVars, mapVars, values,
                   client_world, last_tick>>

\* The acknowledgment of the last diff the client received reaches the server.
ExchangeAck ==
    /\ last_tick # NoTick
    /\ Ack(ExchangeClient, last_tick)
    /\ UNCHANGED <<inputs, exchangeVars>>

\* The next server update starts once the client has run.
ExchangeNextFrame ==
    /\ payload = NoMessage
    /\ NextFrame
    /\ NoExchange

(***************************************************************************)
(* Specifications.                                                         *)
(***************************************************************************)
\* The server may start its first frame at any tick of a long-running
\* world; this start tick makes the counter wrap within the run.
InitTicks == {TickRange - 2}

InitCommon ==
    /\ replication_rules \in RuleSets
    /\ world = EmptyWorld(Storage)
    /\ phase = "update"
    /\ frames = 0
    /\ inputs = 0
    /\ connected = {}
    /\ acks = << >>
    /\ bound = this_run
    /\ candidates = << >>
    /\ messages = << >>
    /\ sent_tick = << >>
    /\ server_to_client = << >>
    /\ client_to_server = << >>
    /\ network_channels = << >>
    /\ event_channel = << >>
    /\ renet_client = [p \in Apps |-> p # SERVER_ID]
    /\ entity_map = [c \in RelayClients |-> [s2c |-> << >>, c2s |-> << >>]]
    /\ events = [p \in Apps |-> [T \in EventTypes |-> << >>]]
    /\ reader = [p \in Apps |-> [T \in EventTypes |-> 0]]
    /\ stage = [p \in Apps |-> [T \in EventTypes |-> "Update"]]
    /\ wire = [c \in RelayClients |-> [id \in ChannelIds |-> << >>]]
    /\ from_client = [p \in Apps |-> [T \in EventTypes |-> << >>]]
    /\ errors = [c \in RelayClients |-> 0]
    /\ panicked = {}
    /\ values = << >>
    /\ payload = NoMessage
    /\ client_world = << >>
    /\ last_tick = NoTick

Init == this_run \in InitTicks /\ InitCommon

\* The transport hands out client ids in order; a new client has received
\* nothing, so its record starts at the oldest tick the comparison tells
\* apart from the running one.
NextClient == IF Clients \ connected = {} THEN 0
              ELSE CHOOSE c \in Clients \ connected : \A d \in Clients \ connected : c <= d
FirstAck == wrapping_sub(this_run, MAX_CHANGE_AGE)

Budget == inputs < MaxInputs /\ inputs' = inputs + 1

\* No client event is registered, sent or received.
NoEvents == UNCHANGED <<buildVars, relayVars>>

\* The server: application commands, transport events, one send per frame.
Next ==
    \/ NoEvents /\ NoExchange /\ Budget /\ \E bundle \in SpawnBundles : Spawn(bundle)
    \/ NoEvents /\ NoExchange /\ Budget /\ \E e \in Entities, c \in InsertableComponents : Insert(e, c)
    \/ NoEvents /\ NoExchange /\ UNCHANGED inputs /\ \E e \in Entities : InsertRemovalTracker(e)
    \/ NoEvents /\ NoExchange /\ Budget /\ \E e \in Entities, c \in RemovableComponents, at \in 1 .. 2 : Remove(e, c, at)
    \/ NoEvents /\ NoExchange /\ Budget /\ \E e \in Entities, c \in DataComponents : Mutate(e, c)
    \/ NoEvents /\ NoExchange /\ Budget /\ Connect(NextClient, FirstAck)
    \/ NoEvents /\ NoExchange /\ UNCHANGED inputs /\ \E c \in DOMAIN sent_tick : Ack(c, sent_tick[c])
    \/ NoEvents /\ NoExchange /\ Budget /\ \E c \in Clients : Disconnect(c)
    \/ NoEvents /\ NoExchange /\ SendDiffs
    \/ NoEvents /\ NoExchange /\ NextFrame

Spec == Init /\ [][Next]_vars

\* The tick window alone within one frame, with every tick as the running
\* tick and as acknowledgment.
InitWindow == this_run \in Tick /\ InitCommon

NextWindow ==
    \/ NoEvents /\ NoExchange /\ UNCHANGED inputs /\ \E c \in Clients, t \in Tick : Connect(c, t)
    \/ NoEvents /\ NoExchange /\ UNCHANGED inputs /\ \E c \in Clients, t \in Tick : Ack(c, t)
    \/ NoEvents /\ NoExchange /\ UNCHANGED inputs /\ \E c \in Clients : Disconnect(c)

SpecWindow == InitWindow /\ [][NextWindow]_vars

\* The network entity map alone.
NextMap ==
    \/ NoEvents /\ NoExchange /\ \E s \in ServerIds, c \in ClientIds : MapInsert(s, c)
    \/ NoEvents /\ NoExchange /\ \E s \in ServerIds : MapRemove(s)

SpecMap == Init /\ [][NextMap]_vars

\* The client events: the apps are built by one setup, clients connect and
\* disconnect, applications send events, and every app runs its frames.
runs(T, system) == event_channel[T].sending = system

\* The setup registers one event type with each of the two deserializers.
Needs(receiving) == \A U \in DOMAIN event_channel : event_channel[U].receiving # receiving

\* The first client sends events of both types, the others Plain events.
RaisedBy(c) == IF c = 1 THEN EventTypes ELSE {"Plain"}

NextRelay ==
    \/ NoExchange /\ Needs("receiving_system") /\ add_client_event("Plain", PolicyOf("Plain"))
    \/ NoExchange /\ Needs("receiving_system") /\ add_mapped_client_event("Mapped", PolicyOf("Mapped"))
    \/ NoExchange /\ Needs("receiving_reflect_system")
          /\ add_client_reflect_event("Plain", PolicyOf("Plain"))
    \/ NoExchange /\ Needs("receiving_reflect_system")
          /\ add_mapped_client_reflect_event("Mapped", PolicyOf("Mapped"))
    \/ NoExchange /\ \E c \in RelayClients : RelayConnect(c)
    \/ NoExchange /\ \E c \in RelayClients : RelayDisconnect(c)
    \/ NoExchange /\ Budget /\ \E c \in RelayClients : \E T \in RaisedBy(c) : \E entity \in EventEntities(T) :
                    RaiseEvent(c, T, entity)
    \/ NoExchange /\ Budget /\ \E message \in RawMessages : SendRaw(1, event_channel["Plain"].id, message)
    \/ NoExchange /\ Budget /\ ClientMapInsert(1, 10, 1)
    \/ NoExchange /\ \E c \in RelayClients, T \in EventTypes :
          ClientSet_Send(c, T) /\ client_connected(c) /\ runs(T, "sending_system")
              /\ sending_system(c, T) /\ frame_flushed(c, T)
    \/ NoExchange /\ \E c \in RelayClients, T \in EventTypes :
          ClientSet_Send(c, T) /\ client_connected(c) /\ runs(T, "sending_reflect_system")
              /\ sending_reflect_system(c, T) /\ frame_flushed(c, T)
    \/ NoExchange /\ \E c \in RelayClients, T \in EventTypes :
          ClientSet_Send(c, T) /\ client_connected(c) /\ runs(T, "mapping_and_sending_system")
              /\ mapping_and_sending_system(c, T) /\ frame_flushed(c, T)
    \/ NoExchange /\ \E c \in RelayClients, T \in EventTypes :
          ClientSet_Send(c, T) /\ client_connected(c)
              /\ runs(T, "mapping_and_sending_reflect_system")
              /\ mapping_and_sending_reflect_system(c, T) /\ frame_flushed(c, T)
    \/ NoExchange /\ \E c \in RelayClients, T \in EventTypes :
          ClientSet_Send(c, T) /\ ~ client_connected(c) /\ ~ has_authority(c)
              /\ no_system_runs /\ frame_flushed(c, T)
    \/ NoExchange /\ \E c \in RelayClients, T \in EventTypes : event_update_system(c, T)
    \/ NoExchange /\ \E T \in EventTypes : \E order \in clients_id :
          ServerSet_Receive(T) /\ event_channel[T].receiving = "receiving_system"
              /\ receiving_system(T, order)
    \/ NoExchange /\ \E T \in EventTypes : \E order \in clients_id :
          ServerSet_Receive(T) /\ event_channel[T].receiving = "receiving_reflect_system"
              /\ receiving_reflect_system(T, order)

InitRelay == Init /\ Len(replication_rules.infos) = 2

SpecRelay == InitRelay /\ [][NextRelay]_vars

\* Authority: the server app and one client app, which may lose its
\* connection, drop its RenetClient and go on offline; both applications
\* send client events.
LocalApps == {SERVER_ID, 1}

NextLocal ==
    \/ NoExchange /\ Needs("receiving_system") /\ add_client_event("Plain", PolicyOf("Plain"))
    \/ NoExchange /\ Needs("receiving_system") /\ add_mapped_client_event("Mapped", PolicyOf("Mapped"))
    \/ NoExchange /\ Needs("receiving_reflect_system")
          /\ add_client_reflect_event("Plain", PolicyOf("Plain"))
    \/ NoExchange /\ Needs("receiving_reflect_system")
          /\ add_mapped_client_reflect_event("Mapped", PolicyOf("Mapped"))
    \/ NoExchange /\ RelayConnect(1)
    \/ NoExchange /\ RelayDisconnect(1)
    \/ NoExchange /\ RemoveRenetClient(1)
    \/ NoExchange /\ Budget /\ \E p \in LocalApps, T \in EventTypes : \E entity \in EventEntities(T) :
                    RaiseEvent(p, T, entity)
    \/ NoExchange /\ Budget /\ ClientMapInsert(1, 10, 1)
    \/ NoExchange /\ \E T \in EventTypes :
          ClientSet_Send(1, T) /\ client_connected(1) /\ runs(T, "sending_system")
              /\ sending_system(1, T) /\ frame_flushed(1, T)
    \/ NoExchange /\ \E T \in EventTypes :
          ClientSet_Send(1, T) /\ client_connected(1) /\ runs(T, "sending_reflect_system")
              /\ sending_reflect_system(1, T) /\ frame_flushed(1, T)
    \/ NoExchange /\ \E T \in EventTypes :
          ClientSet_Send(1, T) /\ client_connected(1) /\ runs(T, "mapping_and_sending_system")
              /\ mapping_and_sending_system(1, T) /\ frame_flushed(1, T)
    \/ NoExchange /\ \E T \in EventTypes :
          ClientSet_Send(1, T) /\ client_connected(1)
              /\ runs(T, "mapping_and_sending_reflect_system")
              /\ mapping_and_sending_reflect_system(1, T) /\ frame_flushed(1, T)
    \/ NoExchange /\ \E p \in LocalApps, T \in EventTypes :
          ClientSet_Send(p, T) /\ has_authority(p)
              /\ local_resending_system(p, T) /\ frame_flushed(p, T)
    \/ NoExchange /\ \E T \in EventTypes :
          ClientSet_Send(1, T) /\ ~ client_connected(1) /\ ~ has_authority(1)
              /\ no_system_runs /\ frame_flushed(1, T)
    \/ NoExchange /\ \E p \in LocalApps, T \in EventTypes : event_update_system(p, T)
    \/ NoExchange /\ \E T \in EventTypes : \E order \in clients_id :
          ServerSet_Receive(T) /\ event_channel[T].receiving = "receiving_system"
              /\ receiving_system(T, order)
    \/ NoExchange /\ \E T \in EventTypes : \E order \in clients_id :
          ServerSet_Receive(T) /\ event_channel[T].receiving = "receiving_reflect_system"
              /\ receiving_reflect_system(T, order)

SpecLocal == InitRelay /\ [][NextLocal]_vars

\* The exchange of the server with one client.
NextExchange ==
    \/ NoEvents /\ \E bundle \in SpawnBundles : ExchangeSpawn(bundle)
    \/ NoEvents /\ \E e \in Entities, c \in DataComponents : update_components_system(e, c)
    \/ NoEvents /\ ExchangeConnect
    \/ NoEvents /\ ExchangeAck
    \/ NoEvents /\ ServerUpdate
    \/ NoEvents /\ ClientUpdate
    \/ NoEvents /\ Lose
    \/ NoEvents /\ ExchangeNextFrame

SpecExchange == Init /\ [][NextExchange]_vars

(***************************************************************************)
(* Vocabulary of the properties.                                           *)
(***************************************************************************)
\* The candidates a scan of the current world yields for bounding tick b.
Collected(b) == collect_candidates(world, replication_rules, this_run, b)

\* The entities that carry the replication marker.
Marked == {e \in Spawned(world) : "Replication" \in ComponentsOf(world, e)}

\* The components registered for replication, read off the rules.
Registered ==
    {replication_rules.infos[i].component_id : i \in DOMAIN replication_rules.infos}

ReplicationIdOf(c) ==
    CHOOSE i \in DOMAIN replication_rules.infos : replication_rules.infos[i].component_id = c

\* The ComponentTicks the storage holds for data component c of entity e.
StoredTicks(w, e, c) ==
    IF w.storage_type[c] = "Table" THEN w.tables[<<e, c>>] ELSE w.sparse_sets[c][e]

\* The places of a scan result where component c of entity e is yielded as
\* a change, and where replication id r of entity e is yielded as a removal.
ChangeYields(cands, e, c) ==
    UNION { { <<i, j>> : j \in {k \in DOMAIN cands[i].changed_component_candidates :
                cands[i].changed_component_candidates[k].replication_info.component_id = c} }
            : i \in {n \in DOMAIN cands : cands[n].entity = e} }

RemovalYields(cands, e, r) ==
    UNION { { <<i, j>> : j \in {k \in DOMAIN cands[i].removed_component_candidates :
                cands[i].removed_component_candidates[k].replication_id = r} }
            : i \in {n \in DOMAIN cands : cands[n].entity = e} }

\* Component c of entity e is subject to replication: the entity is marked,
\* the component is registered and the entity does not ignore it.
Replicated(e, c) ==
    /\ e \in Marked
    /\ c \in ComponentsOf(world, e) \cap Registered
    /\ IgnoredOf(c) \notin ComponentsOf(world, e)

(***************************************************************************)
(* C1: no false positives.  Whatever the bounding tick b, a scan never     *)
(* yields a change candidate for a component whose last-changed tick is as *)
(* old as b or older, measured behind the running tick, whether the        *)
(* component lives in a table or in a sparse set.                          *)
(***************************************************************************)
C1_NoFalsePositives ==
    \A b \in Tick :
        LET cands == Collected(b)
        IN  \A e \in Spawned(world) :
                \A c \in ComponentsOf(world, e) \cap DataComponents :
                    age(StoredTicks(world, e, c).changed, this_run) >= age(b, this_run)
                        => ChangeYields(cands, e, c) = {}

\* A send whose bound is older than the running tick left out a table
\* component and a sparse-set component that had not changed since the bound.
C1_Witness ==
    /\ phase = "sent"
    /\ bound # this_run
    /\ \E e \in Marked :
          /\ Replicated(e, "A") /\ Replicated(e, "B")
          /\ \A c \in {"A", "B"} :
                /\ age(StoredTicks(world, e, c).changed, this_run) >= age(bound, this_run)
                /\ ChangeYields(candidates, e, c) = {}

(***************************************************************************)
(* C2: no false negatives, no duplicates.  For every marked entity and     *)
(* every registered, not ignored component of it whose last-changed tick   *)
(* is newer than the bounding tick, the scan yields the pair exactly once; *)
(* no pair is ever yielded twice.                                          *)
(***************************************************************************)
C2_ExactlyOnce ==
    \A b \in Tick :
        LET cands == Collected(b)
        IN  \A e \in Spawned(world) : \A c \in ComponentsOf(world, e) \cap DataComponents :
                LET count == Cardinality(ChangeYields(cands, e, c))
                IN  /\ count <= 1
                    /\ (Replicated(e, c)
                        /\ is_newer_than(StoredTicks(world, e, c).changed, b, this_run))
                            => count = 1

\* A send yielded a table component and a sparse-set component of entities
\* in two different archetypes.
C2_Witness ==
    /\ phase = "sent"
    /\ \E e1, e2 \in Marked :
          /\ ArchetypeOf(world, e1) # ArchetypeOf(world, e2)
          /\ Replicated(e1, "A") /\ Replicated(e2, "B")
          /\ Cardinality(ChangeYields(candidates, e1, "A")) = 1
          /\ Cardinality(ChangeYields(candidates, e2, "B")) = 1

(***************************************************************************)
(* C3: removals.  For a marked entity with a RemovalTracker the removal    *)
(* candidates are exactly the tracker entries newer than the bounding      *)
(* tick: an entry as old as the bound or older is not yielded, a newer     *)
(* entry is yielded once, and what is yielded carries the entry's          *)
(* replication id and removal tick.                                        *)
(***************************************************************************)
C3_RemovalsExact ==
    \A b \in Tick : \A e \in Marked :
        "RemovalTracker" \in ComponentsOf(world, e) =>
            LET tracker == world.trackers[e]
                cands == Collected(b)
                mine == {i \in DOMAIN cands : cands[i].entity = e}
            IN  /\ \A k \in DOMAIN tracker :
                      Cardinality(RemovalYields(cands, e, tracker[k].replication_id)) =
                          IF is_newer_than(tracker[k].tick, b, this_run) THEN 1 ELSE 0
                /\ \A k \in DOMAIN tracker :
                      age(tracker[k].tick, this_run) >= age(b, this_run)
                          => RemovalYields(cands, e, tracker[k].replication_id) = {}
                /\ \A i \in mine : \A j \in DOMAIN cands[i].removed_component_candidates :
                      \E k \in DOMAIN tracker :
                          /\ tracker[k].replication_id =
                                cands[i].removed_component_candidates[j].replication_id
                          /\ tracker[k].tick = cands[i].removed_component_candidates[j].tick

\* A send yielded a removal recorded in an earlier frame.
C3_Witness ==
    /\ phase = "sent"
    /\ \E i \in DOMAIN candidates :
          \E j \in DOMAIN candidates[i].removed_component_candidates :
              candidates[i].removed_component_candidates[j].tick # this_run

(***************************************************************************)
(* C4: freshness follows the cyclic order behind the running tick, not the *)
(* numeric order.  For ticks T1 and T2 both less than half the range       *)
(* behind the current tick, with T2 the later one, T2 is newer than T1 and *)
(* T1 is not newer than T2, at every tick the run reaches and also when    *)
(* the counter wrapped in between; the change check and the removal check  *)
(* of the scan decide by the same order.                                   *)
(***************************************************************************)
InHalfRange(tick, current) == age(tick, current) < HalfRange

C4_CyclicOrder ==
    /\ \A T1 \in Tick : \A T2 \in Tick :
          (/\ InHalfRange(T1, this_run)
           /\ InHalfRange(T2, this_run)
           /\ age(T2, this_run) < age(T1, this_run))
              => /\ is_newer_than(T2, T1, this_run)
                 /\ ~ is_newer_than(T1, T2, this_run)
    /\ \A b \in {t \in Tick : InHalfRange(t, this_run)} :
          LET cands == Collected(b)
          IN  \A e \in Marked :
                /\ \A c \in {d \in DataComponents : Replicated(e, d)} :
                      LET changed == StoredTicks(world, e, c).changed
                      IN  InHalfRange(changed, this_run) =>
                            ((ChangeYields(cands, e, c) # {})
                                <=> (age(changed, this_run) < age(b, this_run)))
                /\ "RemovalTracker" \in ComponentsOf(world, e) =>
                      \A k \in DOMAIN world.trackers[e] :
                          LET removed == world.trackers[e][k]
                          IN  InHalfRange(removed.tick, this_run) =>
                                ((RemovalYields(cands, e, removed.replication_id) # {})
                                    <=> (age(removed.tick, this_run) < age(b, this_run)))

\* After the counter wrapped, a send yielded a change whose tick is
\* numerically below the bound it is newer than.
C4_Witness ==
    /\ phase = "sent"
    /\ this_run < bound
    /\ \E i \in DOMAIN candidates :
          \E j \in DOMAIN candidates[i].changed_component_candidates :
              candidates[i].changed_component_candidates[j].component_ticks.changed < bound

(***************************************************************************)
(* C5: the coarse scan is a superset.  After a send, whose scan is bounded *)
(* by the oldest acknowledged tick of the connected clients, every change  *)
(* and every removal that is newer than some connected client's own        *)
(* acknowledged tick is among the collected candidates.                    *)
(***************************************************************************)
C5_Superset ==
    phase = "sent" =>
        \A client \in connected : \A e \in Marked :
            /\ \A c \in {d \in DataComponents : Replicated(e, d)} :
                  is_newer_than(StoredTicks(world, e, c).changed, acks[client], this_run)
                      => ChangeYields(candidates, e, c) # {}
            /\ "RemovalTracker" \in ComponentsOf(world, e) =>
                  \A k \in DOMAIN world.trackers[e] :
                      is_newer_than(world.trackers[e][k].tick, acks[client], this_run)
                          => RemovalYields(candidates, e,
                                           world.trackers[e][k].replication_id) # {}

\* A send to two clients with different acknowledged ticks, where a change
\* is newer than the tick of the one and not newer than the tick of the other.
C5_Witness ==
    /\ phase = "sent"
    /\ \E c1, c2 \in connected : \E e \in Marked : \E c \in DataComponents :
          /\ Replicated(e, c)
          /\ acks[c1] # acks[c2]
          /\ is_newer_than(StoredTicks(world, e, c).changed, acks[c2], this_run)
          /\ ~ is_newer_than(StoredTicks(world, e, c).changed, acks[c1], this_run)
          /\ ChangeYields(candidates, e, c) # {}

(***************************************************************************)
(* C6: the per-client cut.  The diff built for a client holds a change or  *)
(* a removal only if it is newer than that client's own acknowledged tick; *)
(* a candidate that is newer than the oldest tick of all clients but not   *)
(* newer than this client's tick is left out of this client's diff.        *)
(***************************************************************************)
\* The changes and removals the diff of a client holds for entity e.
MessageChanges(message, e) ==
    UNION { Range(message.entities[i].changes)
            : i \in {n \in DOMAIN message.entities : message.entities[n].entity = e} }

MessageRemovals(message, e) ==
    UNION { Range(message.entities[i].removals)
            : i \in {n \in DOMAIN message.entities : message.entities[n].entity = e} }

C6_PerClientCut ==
    phase = "sent" =>
        \A client \in DOMAIN messages : \A e \in Spawned(world) :
            /\ \A m \in MessageChanges(messages[client], e) :
                  is_newer_than(m.tick, acks[client], this_run)
            /\ \A m \in MessageRemovals(messages[client], e) :
                  is_newer_than(m.tick, acks[client], this_run)
            /\ \A c \in ComponentsOf(world, e) \cap Registered :
                  ~ is_newer_than(StoredTicks(world, e, c).changed, acks[client], this_run)
                      => \A m \in MessageChanges(messages[client], e) :
                            m.replication_id # ReplicationIdOf(c)

\* A candidate of the coarse scan is in the diff of one client and is cut
\* from the diff of another, whose acknowledged tick is as new as the change.
C6_Witness ==
    /\ phase = "sent"
    /\ \E c1, c2 \in DOMAIN messages : \E e \in Marked : \E c \in DataComponents :
          /\ Replicated(e, c)
          /\ ChangeYields(candidates, e, c) # {}
          /\ \E m \in MessageChanges(messages[c2], e) : m.replication_id = ReplicationIdOf(c)
          /\ \A m \in MessageChanges(messages[c1], e) : m.replication_id # ReplicationIdOf(c)

(***************************************************************************)
(* C7: the oldest tick.  After every connect, acknowledgment and           *)
(* disconnect, oldest_tick is the oldest acknowledged tick of the clients  *)
(* that are connected now (their numeric minimum while none of them lies   *)
(* beyond the wrap), and the running tick when none is connected; when a   *)
(* client disconnects, the result is the oldest tick of those that remain. *)
(***************************************************************************)
MaxOf(S) == CHOOSE x \in S : \A y \in S : y <= x
MinOf(S) == CHOOSE x \in S : \A y \in S : x <= y

\* The oldest acknowledged tick among the clients `who`, from their ages.
OldestAmong(who, acked, current) ==
    IF who = {} THEN current
    ELSE wrapping_sub(current, MaxOf({age(acked[c], current) : c \in who}))

C7_OldestHolds ==
    /\ oldest_tick(acks, this_run) = OldestAmong(connected, acks, this_run)
    /\ (connected # {} /\ \A c \in connected : acks[c] <= this_run)
          => oldest_tick(acks, this_run) = MinOf({acks[c] : c \in connected})

C7_OldestTick ==
    /\ C7_OldestHolds
    /\ [][ /\ C7_OldestHolds'
           /\ \A c \in connected :
                 c \notin connected'
                    => oldest_tick(acks', this_run') =
                          OldestAmong(connected \ {c}, acks, this_run) ]_vars

\* Clients that acknowledged 5, 9 and 3: the oldest tick is 3, and 5 for
\* the two that remain when the client at 3 leaves.
C7_Witness ==
    /\ connected = {1, 2, 3}
    /\ acks[1] = 5 /\ acks[2] = 9 /\ acks[3] = 3
    /\ this_run = 9
    /\ oldest_tick(acks, this_run) = 3
    /\ ENABLED Disconnect(3)
    /\ oldest_tick(Restrict(acks, {1, 2}), this_run) = 5

(***************************************************************************)
(* C8: the network entity map is a bijection.  After every insert and      *)
(* remove, to_client(s) = c exactly when to_server(c) = s; an insert that  *)
(* aliases an entry on either side replaces it, so the new pair is mapped  *)
(* both ways and the ids it displaced are unmapped.                        *)
(***************************************************************************)
C8_Bijective ==
    \A sid \in ServerIds : \A cid \in ClientIds :
        (to_client(server_to_client, sid) = cid) <=> (to_server(client_to_server, cid) = sid)

C8_InsertReplaces ==
    \A sid \in ServerIds : \A cid \in ClientIds :
        MapInsert(sid, cid) =>
            /\ to_client(server_to_client', sid) = cid
            /\ to_server(client_to_server', cid) = sid
            /\ \A old \in ClientIds \ {cid} :
                  to_client(server_to_client, sid) = old
                      => to_server(client_to_server', old) = Unmapped
            /\ \A old \in ServerIds \ {sid} :
                  to_server(client_to_server, cid) = old
                      => to_client(server_to_client', old) = Unmapped

C8_EntityMap ==
    /\ C8_Bijective
    /\ [][C8_Bijective' /\ C8_InsertReplaces]_vars

\* After insert(10, 1), with client id 2 mapped as well: insert(10, 2) is
\* about to alias an entry on each side.
C8_Witness ==
    /\ to_client(server_to_client, 10) = 1
    /\ to_server(client_to_server, 1) = 10
    /\ to_server(client_to_server, 2) = 11
    /\ ENABLED MapInsert(10, 2)

(***************************************************************************)
(* C9: a component that is not registered for replication, or that the     *)
(* entity ignores, is never yielded as a change, whatever its ticks and    *)
(* whatever the bound; the registered, not ignored components of the same  *)
(* entity are yielded as usual.                                            *)
(***************************************************************************)
C9_RegisteredAndNotIgnored ==
    \A b \in Tick :
        LET cands == Collected(b)
        IN  \A e \in Spawned(world) : \A c \in ComponentsOf(world, e) :
                /\ (c \notin Registered \/ IgnoredOf(c) \in ComponentsOf(world, e))
                      => ChangeYields(cands, e, c) = {}
                /\ (/\ Replicated(e, c)
                    /\ \E d \in ComponentsOf(world, e) \ {c} :
                          d \notin Registered \/ IgnoredOf(d) \in ComponentsOf(world, e)
                    /\ is_newer_than(StoredTicks(world, e, c).changed, b, this_run))
                      => ChangeYields(cands, e, c) # {}

\* A send left out an ignored component that is newer than the bound and
\* yielded another component of the same entity.
C9_Witness ==
    /\ phase = "sent"
    /\ \E e \in Marked :
          /\ {"A", "B", "IgnoredA"} \subseteq ComponentsOf(world, e)
          /\ is_newer_than(StoredTicks(world, e, "A").changed, bound, this_run)
          /\ ChangeYields(candidates, e, "A") = {}
          /\ ChangeYields(candidates, e, "B") # {}

(***************************************************************************)
(* C10: storage-layout independence.  A world and the world that differs   *)
(* from it only in keeping one data component in the other storage (table  *)
(* instead of sparse set, or the reverse) yield, for the same running tick *)
(* and the same bound, the same set of (entity, component, change ticks).  *)
(***************************************************************************)
\* The world w with data component c kept in the other storage.
OtherStorage(w, c) ==
    LET holders == {e \in Spawned(w) : c \in ComponentsOf(w, e)}
    IN  IF w.storage_type[c] = "Table"
        THEN [w EXCEPT
                !.storage_type[c] = "SparseSet",
                !.tables = Restrict(@, {p \in DOMAIN @ : p[2] # c}),
                !.sparse_sets = (c :> [e \in holders |-> w.tables[<<e, c>>]]) @@ @]
        ELSE [w EXCEPT
                !.storage_type[c] = "Table",
                !.tables = [p \in {<<e, c>> : e \in holders} |-> w.sparse_sets[c][p[1]]] @@ @,
                !.sparse_sets = Restrict(@, DOMAIN @ \ {c})]

\* What a scan result tells its caller, without the access path.
Yielded(cands) ==
    UNION { { <<cands[i].entity,
                cands[i].changed_component_candidates[j].replication_id,
                cands[i].changed_component_candidates[j].component_ticks>>
              : j \in DOMAIN cands[i].changed_component_candidates }
            : i \in DOMAIN cands }

C10_StorageIndependent ==
    \A b \in Tick : \A c \in DataComponents :
        Yielded(collect_candidates(OtherStorage(world, c), replication_rules, this_run, b))
            = Yielded(Collected(b))

\* A send yielded one component read from a table and one read from a
\* sparse set, and left out one of each.
C10_Witness ==
    /\ phase = "sent"
    /\ \E i, k \in DOMAIN candidates :
          /\ \E j \in DOMAIN candidates[i].changed_component_candidates :
                candidates[i].changed_component_candidates[j].component_ptr.storage = "Table"
          /\ \E j \in DOMAIN candidates[k].changed_component_candidates :
                candidates[k].changed_component_candidates[j].component_ptr.storage
                    = "SparseSet"
    /\ \E e \in Marked : Replicated(e, "A") /\ ChangeYields(candidates, e, "A") = {}
    /\ \E e \in Marked : Replicated(e, "B") /\ ChangeYields(candidates, e, "B") = {}

(***************************************************************************)
(* C11: resend until acknowledged.  In every frame, while the acknowledged *)
(* tick of a connected client lies behind the tick of a change or of a     *)
(* removal on a replicated entity, the scan of that frame yields the       *)
(* change and the diff built for that client holds it: a diff that was     *)
(* lost in one frame is offered again in the next, by the scan alone.      *)
(***************************************************************************)
\* The acknowledged tick of the client lies behind tick t.
Unacknowledged(client, t) ==
    /\ age(t, this_run) < age(acks[client], this_run)
    /\ age(t, this_run) < MAX_CHANGE_AGE

C11_ResendUntilAck ==
    phase = "sent" =>
        \A client \in connected : \A e \in Marked :
            /\ \A c \in {d \in DataComponents : Replicated(e, d)} :
                  Unacknowledged(client, StoredTicks(world, e, c).changed)
                      => /\ ChangeYields(candidates, e, c) # {}
                         /\ \E m \in MessageChanges(messages[client], e) :
                               /\ m.replication_id = ReplicationIdOf(c)
                               /\ m.tick = StoredTicks(world, e, c).changed
            /\ "RemovalTracker" \in ComponentsOf(world, e) =>
                  \A k \in DOMAIN world.trackers[e] :
                      Unacknowledged(client, world.trackers[e][k].tick)
                          => world.trackers[e][k] \in MessageRemovals(messages[client], e)

\* The second send to a client that was connected before the first send
\* and has acknowledged nothing: a change made before the first send, in
\* the frame before, is in the diff of this frame again.
C11_Witness ==
    /\ phase = "sent"
    /\ frames = 1
    /\ \E client \in connected : \E e \in Marked : \E c \in DataComponents :
          /\ Replicated(e, c)
          /\ world.storage_type[c] = "Table"
          /\ age(acks[client], this_run) = MAX_CHANGE_AGE + 1
          /\ age(StoredTicks(world, e, c).changed, this_run) = 1
          /\ \E m \in MessageChanges(messages[client], e) :
                m.replication_id = ReplicationIdOf(c)

(***************************************************************************)
(* C19: a missing RemovalTracker is tolerated.  Whatever the bounding      *)
(* tick, a replicated entity without a RemovalTracker is yielded once,     *)
(* with an empty removal list, and with the change candidates the scan     *)
(* yields for it once the tracker has been inserted.                       *)
(***************************************************************************)
\* The world after the RemovalTracker was inserted on entity e.
TrackedWorld(e) ==
    [world EXCEPT !.archetypes = move_entity(@, e, ComponentsOf(world, e) \cup {"RemovalTracker"}),
                  !.trackers = (e :> << >>) @@ @]

\* The candidates of entity e in a scan result, in order.
CandidatesOf(cands, e) == SelectSeq(cands, LAMBDA x : x.entity = e)

C19_MissingTracker ==
    \A e \in Marked :
        "RemovalTracker" \notin ComponentsOf(world, e) =>
            \A b \in Tick :
                LET untracked == CandidatesOf(Collected(b), e)
                    tracked == CandidatesOf(collect_candidates(TrackedWorld(e),
                                                replication_rules, this_run, b), e)
                IN  /\ Len(untracked) = 1
                    /\ Len(tracked) = 1
                    /\ untracked[1].removed_component_candidates = << >>
                    /\ untracked[1].changed_component_candidates
                          = tracked[1].changed_component_candidates

\* A send that yields a replicated entity without tracker, with a change,
\* next to a replicated entity that has its tracker.
C19_Witness ==
    /\ phase = "sent"
    /\ \E i, j \in DOMAIN candidates :
          /\ "RemovalTracker" \notin ComponentsOf(world, candidates[i].entity)
          /\ candidates[i].changed_component_candidates # << >>
          /\ "RemovalTracker" \in ComponentsOf(world, candidates[j].entity)

WellFormed(T, message) == Len(message) = (IF T = "Mapped" THEN 2 ELSE 1)

\* FromClient event x carries client c and the fields of message m.
Carries(T, x, c, m) ==
    /\ x.client_id = c
    /\ x.event.id = m[1]
    /\ x.event.entity = (IF T = "Mapped" THEN m[2] ELSE NoEntity)

\* The step is a run of the receiving system of T that found a message.
ReceiveStep(T) ==
    /\ built
    /\ connected' = connected
    /\ \E c \in connected : Len(wire'[c][event_channel[T].id]) < Len(wire[c][event_channel[T].id])

\* The FromClient events of type T the step emitted on the server.
Emitted(T) ==
    SubSeq(from_client'[SERVER_ID][T], Len(from_client[SERVER_ID][T]) + 1,
           Len(from_client'[SERVER_ID][T]))

C12_ReceiveAll ==
    [][\A T \in EventTypes : ReceiveStep(T) =>
          /\ SubSeq(from_client'[SERVER_ID][T], 1, Len(from_client[SERVER_ID][T]))
                = from_client[SERVER_ID][T]
          /\ \A x \in Range(Emitted(T)) : x.client_id \in connected
          /\ \A c \in connected :
                LET good == SelectSeq(wire[c][event_channel[T].id],
                                      LAMBDA m : WellFormed(T, m))
                    mine == SelectSeq(Emitted(T), LAMBDA x : x.client_id = c)
                IN  /\ wire'[c][event_channel[T].id] = << >>
                    /\ Len(mine) = Len(good)
                    /\ \A i \in DOMAIN good : Carries(T, mine[i], c, good[i])]_vars

\* Two messages of one connected client and one message of another client
\* wait on the channel of an event type, and its receiving system can run.
C12_Witness ==
    /\ built
    /\ connected = {1, 2}
    /\ Len(wire[1][event_channel["Plain"].id]) = 2
    /\ Len(wire[2][event_channel["Plain"].id]) = 1
    /\ \A c \in connected : \A m \in Range(wire[c][event_channel["Plain"].id]) :
          WellFormed("Plain", m)
    /\ event_channel["Plain"].receiving = "receiving_system"
    /\ ENABLED (ServerSet_Receive("Plain") /\ receiving_system("Plain", <<2, 1>>))

(***************************************************************************)
(* C16: a message that fails to deserialize.  In a run of a receiving      *)
(* system that meets such a message, the message is reported as an error   *)
(* for its client and emits nothing; the server does not panic, and every  *)
(* other message on the channel, of that client and of the other connected *)
(* clients, is received and emitted in the same run.                       *)
(***************************************************************************)
Malformed(T, c) ==
    SelectSeq(wire[c][event_channel[T].id], LAMBDA m : ~ WellFormed(T, m))

C16_SkipMalformed ==
    [][\A T \in EventTypes :
          (ReceiveStep(T) /\ \E c \in connected : Malformed(T, c) # << >>) =>
              /\ SERVER_ID \notin panicked'
              /\ \A c \in connected :
                    /\ errors'[c] = errors[c] + Len(Malformed(T, c))
                    /\ wire'[c][event_channel[T].id] = << >>
                    /\ \A i \in DOMAIN wire[c][event_channel[T].id] :
                          LET m == wire[c][event_channel[T].id][i]
                          IN  WellFormed(T, m) <=>
                                \E x \in Range(Emitted(T)) : Carries(T, x, c, m)
              /\ Len(Emitted(T)) + Len(Flatten([k \in 1 .. MaxRelayClients |->
                        IF k \in connected THEN Malformed(T, k) ELSE << >>]))
                    = Len(Flatten([k \in 1 .. MaxRelayClients |->
                        IF k \in connected THEN wire[k][event_channel[T].id] ELSE << >>]))]_vars

\* A client's queue holds a malformed message followed by a well-formed
\* one, another client's queue holds a well-formed one, and the receiving
\* system can run.
C16_Witness ==
    /\ built
    /\ connected = {1, 2}
    /\ Len(wire[1][event_channel["Plain"].id]) = 2
    /\ ~ WellFormed("Plain", wire[1][event_channel["Plain"].id][1])
    /\ WellFormed("Plain", wire[1][event_channel["Plain"].id][2])
    /\ Len(wire[2][event_channel["Plain"].id]) = 1
    /\ WellFormed("Plain", wire[2][event_channel["Plain"].id][1])
    /\ event_channel["Plain"].receiving = "receiving_reflect_system"
    /\ ENABLED (ServerSet_Receive("Plain") /\ receiving_reflect_system("Plain", <<1, 2>>))

(***************************************************************************)
(* C14: mapped client events.  For an event type registered with entity    *)
(* mapping, every message a client puts on the channel of the type is the  *)
(* serialization of a drained event whose entity was replaced by the       *)
(* server entity the client's NetworkEntityMap holds for it, so the        *)
(* messages on that channel and the FromClient events received from        *)
(* clients carry server entities; the receiving system emits the entity of *)
(* the message as it is.                                                   *)
(***************************************************************************)
MappedSending(T) ==
    /\ registered(T)
    /\ event_channel[T].sending \in {"mapping_and_sending_system",
                                      "mapping_and_sending_reflect_system"}

\* The messages the step added to the channel of T for client c.
Added(c, T) ==
    SubSeq(wire'[c][event_channel[T].id], Len(wire[c][event_channel[T].id]) + 1,
           Len(wire'[c][event_channel[T].id]))

C14_CarriesServerIds ==
    \A T \in EventTypes : MappedSending(T) =>
        /\ \A c \in RelayClients : \A m \in Range(wire[c][event_channel[T].id]) :
              m[2] \in ServerIds
        /\ \A x \in Range(from_client[SERVER_ID][T]) :
              x.client_id \in RelayClients => x.event.entity \in ServerIds

C14_MappedBeforeSend ==
    [][\A T \in EventTypes : MappedSending(T) =>
          /\ \A c \in RelayClients :
                Len(wire'[c][event_channel[T].id]) > Len(wire[c][event_channel[T].id]) =>
                    /\ events'[c][T] = << >>
                    /\ Len(Added(c, T)) <= Len(events[c][T])
                    /\ \A i \in DOMAIN Added(c, T) :
                          LET raised == events[c][T][i].event
                          IN  /\ raised.entity \in DOMAIN entity_map[c].c2s
                              /\ Added(c, T)[i]
                                    = <<raised.id, entity_map[c].c2s[raised.entity]>>
          /\ ReceiveStep(T) =>
                \A x \in Range(Emitted(T)) :
                    \E m \in Range(wire[x.client_id][event_channel[T].id]) :
                        x.event.id = m[1] /\ x.event.entity = m[2]]_vars

C14_MappedEvents == C14_CarriesServerIds /\ C14_MappedBeforeSend

\* The server has received a mapped event of client 1: it was raised with
\* client entity 1 and carries the server entity of that client's map.
C14_Witness ==
    /\ MappedSending("Mapped")
    /\ 1 \in DOMAIN entity_map[1].c2s
    /\ \E x \in Range(from_client[SERVER_ID]["Mapped"]) :
          x.client_id = 1 /\ x.event.entity = entity_map[1].c2s[1]

(***************************************************************************)
(* C15: the channel of an event type.  A registration creates one client   *)
(* channel with the policy it was given and stores its id for the type;    *)
(* the id of a registered type never changes and no two types share one;   *)
(* a client's send of type T adds messages to the channel of T only, and   *)
(* a run of the server's receiving system of T takes messages from the     *)
(* channel of T only, so that a channel carries serialized events of its   *)
(* own type alone.                                                         *)
(***************************************************************************)
\* The step registers event type T.
Registers(T) == ~ registered(T) /\ T \in DOMAIN event_channel'

\* The step is a send of client c for type T: its reader advanced or its
\* queue was drained.
SendStep(c, T) ==
    /\ client_connected(c)
    /\ stage[c][T] = "Update"
    /\ reader'[c][T] # reader[c][T] \/ (events[c][T] # << >> /\ events'[c][T] = << >>)

C15_OneChannelPerType ==
    /\ \A T, U \in DOMAIN event_channel :
          /\ event_channel[T].id \in DOMAIN network_channels
          /\ network_channels[event_channel[T].id] = PolicyOf(T)
          /\ event_channel[T].id = event_channel[U].id => T = U
    /\ \A c \in RelayClients : \A T \in DOMAIN event_channel :
          \A m \in Range(wire[c][event_channel[T].id]) :
              m \in RawMessages \/ WellFormed(T, m)

C15_ChannelHonoured ==
    [][/\ \A T \in EventTypes :
            /\ Registers(T) =>
                  /\ Len(network_channels') = Len(network_channels) + 1
                  /\ SubSeq(network_channels', 1, Len(network_channels)) = network_channels
                  /\ network_channels'[event_channel'[T].id] = PolicyOf(T)
            /\ registered(T) =>
                  /\ T \in DOMAIN event_channel'
                  /\ event_channel'[T].id = event_channel[T].id
       /\ \A c \in RelayClients : \A T \in DOMAIN event_channel :
            SendStep(c, T) =>
                \A id \in ChannelIds :
                    id # event_channel[T].id => wire'[c][id] = wire[c][id]
       /\ \A T \in DOMAIN event_channel :
            from_client'[SERVER_ID][T] # from_client[SERVER_ID][T] =>
                \A c \in RelayClients : \A id \in ChannelIds :
                    id # event_channel[T].id => wire'[c][id] = wire[c][id]]_vars

C15_EventChannel == C15_OneChannelPerType /\ C15_ChannelHonoured

\* Plain was registered second, with the reflect systems, and events of
\* both types have travelled from client 1 to the server.
C15_Witness ==
    /\ built
    /\ event_channel["Plain"].id = 2
    /\ event_channel["Plain"].sending = "sending_reflect_system"
    /\ \E x \in Range(from_client[SERVER_ID]["Plain"]) : x.client_id = 1
    /\ \E x \in Range(from_client[SERVER_ID]["Mapped"]) : x.client_id = 1

(***************************************************************************)
(* C13: when the application has authority (the server, or a client that   *)
(* runs offline), the send set of a frame converts every locally raised    *)
(* event T, in order, into one FromClient<T> tagged with SERVER_ID, sends  *)
(* no message through the transport and leaves the queue of T empty; no    *)
(* event is found twice among the local conversions.                       *)
(***************************************************************************)
Extends(new, old) == Len(new) >= Len(old) /\ SubSeq(new, 1, Len(old)) = old

\* the send set of an authority application acts on its queue of T: the
\* queue is not merely appended to, or the frame goes on with events left
LocalStep(p, T) ==
    /\ has_authority(p)
    /\ stage[p][T] = "Update"
    /\ events[p][T] # << >>
    /\ \/ ~ Extends(events'[p][T], events[p][T])
       \/ stage'[p][T] # stage[p][T]

Local(T, x) == [client_id |-> SERVER_ID, event |-> x.event]

C13_Converted ==
    [][\A p \in LocalApps, T \in EventTypes :
         LocalStep(p, T) =>
            /\ from_client'[p][T] =
                  from_client[p][T] \o [i \in DOMAIN events[p][T] |-> Local(T, events[p][T][i])]
            /\ wire' = wire
            /\ events'[p][T] = << >>]_vars

C13_Once ==
    [](\A p \in LocalApps, T \in EventTypes :
         \A i, j \in DOMAIN from_client[p][T] :
            /\ from_client[p][T][i].client_id = SERVER_ID
            /\ from_client[p][T][j].client_id = SERVER_ID
            /\ from_client[p][T][i].event.id = from_client[p][T][j].event.id
            => i = j)

C13_LocalResending == C13_Converted /\ C13_Once

\* an offline client has converted two of its events, in the order raised,
\* nothing being on its transport, and the server has converted one of its own
C13_Witness ==
    /\ has_authority(1)
    /\ \E T \in EventTypes :
          /\ Len(from_client[1][T]) = 2
          /\ \A i \in 1 .. 2 : from_client[1][T][i].client_id = SERVER_ID
          /\ from_client[1][T][1].event.id < from_client[1][T][2].event.id
          /\ events[1][T] = << >>
          /\ wire[1][event_channel[T].id] = << >>
    /\ \E T \in EventTypes :
          \E i \in DOMAIN from_client[SERVER_ID][T] :
             from_client[SERVER_ID][T][i].client_id = SERVER_ID

(***************************************************************************)
(* C17: with a connected client, after every server update whose diff is   *)
(* delivered and applied by the client, the client world holds exactly as  *)
(* many entities as the server has replicated ones, each mapped to its own *)
(* server entity, on the first exchange and on every later one while the   *)
(* data keeps changing; the client never holds more than that.             *)
(***************************************************************************)
\* the client runs on a delivered diff
Delivered == payload # NoMessage /\ last_tick' # last_tick

ClientEntities == DOMAIN client_world

C17_ExactCount ==
    [][Delivered =>
          /\ Cardinality(ClientEntities') = Cardinality(Marked)
          /\ DOMAIN server_to_client' = Marked
          /\ \A e \in Marked : to_server(client_to_server', to_client(server_to_client', e)) = e
          /\ {to_client(server_to_client', e) : e \in Marked} = ClientEntities']_vars

C17_NeverMore == [](Cardinality(ClientEntities) <= Cardinality(Marked))

C17_EntityCount == C17_ExactCount /\ C17_NeverMore

\* the third exchange is about to be applied: the client already holds two
\* entities, the data of a replicated entity has changed twice since, and
\* both entities are in the diff again with changes
C17_Witness ==
    /\ frames = 2
    /\ Cardinality(Marked) = 2
    /\ Cardinality(ClientEntities) = 2
    /\ \E e \in Marked : values[<<e, "A">>] = 2
    /\ payload # NoMessage
    /\ \A i \in DOMAIN payload.entities : payload.entities[i].changes # << >>
    /\ Len(payload.entities) = 2
    /\ ENABLED ClientUpdate

(***************************************************************************)
(* C18: whenever the tick the client has acknowledged is not older than    *)
(* any change of a replicated component on the server, every replicated    *)
(* component has the same data on the client as on the server.             *)
(***************************************************************************)
CaughtUp ==
    /\ ExchangeClient \in connected
    /\ \A e \in Marked : \A c \in DataComponents :
          Replicated(e, c) =>
             age(acks[ExchangeClient], this_run) <= age(StoredTicks(world, e, c).changed, this_run)

ClientValue(e, c) ==
    LET local == to_client(server_to_client, e)
    IN  IF local \in ClientEntities /\ c \in DOMAIN client_world[local]
        THEN client_world[local][c] ELSE NoTick

RowOf(e) == IndexOf(world.archetypes[ArchetypeOf(world, e)].entities, e)

StorageBefore(e, f) ==
    \/ ArchetypeOf(world, e) < ArchetypeOf(world, f)
    \/ ArchetypeOf(world, e) = ArchetypeOf(world, f) /\ RowOf(e) < RowOf(f)

C21_OnePerMarkedEntity ==
    \A b \in Tick :
       LET cands == Collected(b)
       IN  /\ \A e \in Marked : Cardinality({i \in DOMAIN cands : cands[i].entity = e}) = 1
           /\ \A i \in DOMAIN cands : cands[i].entity \in Marked
           /\ \A i, j \in DOMAIN cands :
                 i < j => StorageBefore(cands[i].entity, cands[j].entity)

\* a scan has returned two entities against their ids, in two archetypes,
\* one of them with nothing changed and nothing removed
C21_Witness ==
    /\ phase = "sent"
    /\ Len(candidates) = 2
    /\ candidates[1].entity > candidates[2].entity
    /\ ArchetypeOf(world, candidates[1].entity) # ArchetypeOf(world, candidates[2].entity)
    /\ \E i \in DOMAIN candidates :
          /\ candidates[i].changed_component_candidates = << >>
          /\ candidates[i].removed_component_candidates = << >>
    /\ \E i \in DOMAIN candidates : candidates[i].changed_component_candidates # << >>

(***************************************************************************)
(* C22: in one frame the send set hands the events of a type to at most    *)
(* one of the two systems registered for it: the run conditions never hold *)
(* together, a frame that puts messages on the transport emits no local    *)
(* FromClient, and a frame that emits local FromClient events runs on an   *)
(* application without a connected client and puts nothing on the          *)
(* transport.                                                              *)
(***************************************************************************)
\* the FromClient<T> events of app p that came from the local path
LocalOf(log) == SelectSeq(log, LAMBDA x : x.client_id = SERVER_ID)

SentOver(p) ==
    p \in RelayClients /\ \E id \in ChannelIds : Len(wire'[p][id]) > Len(wire[p][id])

ResentLocally(p) ==
    \E T \in EventTypes : Len(LocalOf(from_client'[p][T])) > Len(LocalOf(from_client[p][T]))

C22_ExclusiveConditions == [](\A p \in LocalApps : ~ (client_connected(p) /\ has_authority(p)))

C22_OnePathPerFrame ==
    [][\A p \in LocalApps :
         /\ ~ (SentOver(p) /\ ResentLocally(p))
         /\ SentOver(p) => client_connected(p) /\ ~ has_authority(p)
         /\ ResentLocally(p) => has_authority(p) /\ ~ client_connected(p) /\ wire' = wire]_vars

Unsent(queue, cursor) == SelectSeq(queue, LAMBDA x : x.event.id > cursor)

\* the send set of a frame runs for T on connected client c
FrameSend(c, T) ==
    /\ client_connected(c)
    /\ c \notin panicked
    /\ stage[c][T] = "Update"
    /\ events[c][T] # << >>
    /\ \/ stage'[c][T] = "Last"
       \/ events'[c][T] = << >>
       \/ reader'[c][T] # reader[c][T]

OnWire(c, T, event) ==
    serialize(T, IF MappedSending(T) THEN map_entities(entity_map[c].c2s, event) ELSE event)

C23_OneMessageEach ==
    [][\A c \in RelayClients : \A T \in DOMAIN event_channel :
         LET unsent == Unsent(events[c][T], reader[c][T])
             id == event_channel[T].id
         IN  /\ FrameSend(c, T) /\ c \notin panicked' =>
                  /\ wire'[c][id] = wire[c][id] \o [i \in DOMAIN unsent |-> OnWire(c, T, unsent[i].event)]
                  /\ Unsent(events'[c][T], reader'[c][T]) = << >>
             /\ reader'[c][T] >= reader[c][T]]_vars

\* the ids of the events of client c the server has emitted, then of those
\* on the way to it
Arrived(c, T) ==
    LET got == SelectSeq(from_client[SERVER_ID][T], LAMBDA x : x.client_id = c)
        way == SelectSeq(wire[c][event_channel[T].id], LAMBDA m : WellFormed(T, m))
    IN  [i \in DOMAIN got |-> got[i].event.id] \o [i \in DOMAIN way |-> way[i][1]]

C23_NeverTwice ==
    [](\A c \in RelayClients : \A T \in DOMAIN event_channel :
         \A i, j \in DOMAIN Arrived(c, T) : i < j => Arrived(c, T)[i] < Arrived(c, T)[j])

C23_ExactlyOnceInOrder == C23_OneMessageEach /\ C23_NeverTwice

\* a connected client runs its send set with an event it sent in the frame
\* before still in the queue, behind it one raised since; its earlier
\* message is still on the way
C23_Witness ==
    \E T \in DOMAIN event_channel :
       /\ ~ MappedSending(T)
       /\ client_connected(1)
       /\ stage[1][T] = "Update"
       /\ Len(events[1][T]) = 2
       /\ events[1][T][1].event.id = reader[1][T]
       /\ events[1][T][2].event.id > reader[1][T]
       /\ \E i \in DOMAIN wire[1][event_channel[T].id] :
             wire[1][event_channel[T].id][i] = serialize(T, events[1][T][1].event)
       /\ ENABLED (ClientSet_Send(1, T) /\ sending_system(1, T) /\ frame_flushed(1, T))

====
